---- MODULE Spec2Model ----
(***************************************************************************)
(* Transaction RAG service (aiservice): the /ingest and /prompt handlers,  *)
(* the in-memory query cache with its TTL, the mode classifier, the filter *)
(* applicator, the statistics calculator and the pagination of results.    *)
(*                                                                         *)
(* Abstractions.  A prompt is a sequence of lower-case words; amounts are  *)
(* integers; time is counted in minutes.  The text generator and the       *)
(* similarity index are external: a call returns one of LlmTexts or fails. *)
(***************************************************************************)
EXTENDS Integers, Sequences, FiniteSets, TLC

\* ------------------------------------------------------------------ bounds
MaxTicks == 1
NumRequests == 2
MaxStarts == 2
MaxPage == 2

\* ------------------------------------------------------- program constants
CACHE_TTL_MINUTES == 30
DEFAULT_K == 50

None == "None"

\* ------------------------------------------------------------ small helpers
Min2(a, b) == IF a <= b THEN a ELSE b

RECURSIVE SumSeq(_)
SumSeq(s) == IF s = <<>> THEN 0 ELSE Head(s) + SumSeq(Tail(s))

RECURSIVE MaxSeq(_)
MaxSeq(s) ==
    IF Len(s) = 1 THEN Head(s)
    ELSE LET m == MaxSeq(Tail(s)) IN IF Head(s) >= m THEN Head(s) ELSE m

RECURSIVE MinSeq(_)
MinSeq(s) ==
    IF Len(s) = 1 THEN Head(s)
    ELSE LET m == MinSeq(Tail(s)) IN IF Head(s) <= m THEN Head(s) ELSE m

\* ------------------------------------------------------------------ records
\* A transaction record as the handlers read it (TransactionData).
Txn(id, amt, mode, type, created) ==
    [txnId |-> id, amount |-> amt, mode |-> mode, pk_GSI_1 |-> type,
     createdAt |-> created, accountId |-> "", narration |-> <<>>]

\* A record with its account and narration; the narration is a sequence of
\* words.
Rec(id, amt, mode, type, created, acc, narr) ==
    [txnId |-> id, amount |-> amt, mode |-> mode, pk_GSI_1 |-> type,
     createdAt |-> created, accountId |-> acc, narration |-> narr]

\* A field that is present with the JSON value null.
Null == "null"

\* An amount float() cannot convert: null or a non-numeric string.
BadAmount == 0 - 2

DatasetA ==
    << Txn("t1", 50, "UPI", "TYPE#DEBIT", "2024-03-15"),
       Txn("t2", 20, "CASH", "TYPE#CREDIT", "2024-03-20"),
       Txn("t3", 50, "UPI", "TYPE#CREDIT", "2019-01-02"),
       Txn("t4", 10, "NEFT", "TYPE#DEBIT", "") >>

Datasets == {DatasetA}

\* The dataset of a later /ingest call: none of its records is in the first.
\* Its second record has null for the txnId.
DatasetB ==
    << Txn("u1", 70, "UPI", "TYPE#DEBIT", "2024-03-10"),
       Txn(Null, 30, "CARD", "TYPE#CREDIT", "2024-04-01") >>

LaterDatasets == {DatasetB}

\* ------------------------------------------------------------------- text
\* Words that hold a keyword as a proper substring: <<word, keyword>>.
\* PrefixPairs: the keyword starts the word; SuffixPairs: it ends the word;
\* InfixPairs: it lies strictly inside it.
PrefixPairs ==
    { <<"transactions", "transaction">>, <<"rahulkumar", "rahul">>, <<"summary", "sum">>,
      <<"summarize", "sum">>, <<"allowance", "all">>, <<"counts", "count">>,
      <<"overview", "over">>, <<"march", "mar">>, <<"january", "jan">>,
      <<"credited", "credit">>, <<"debited", "debit">> }

SuffixPairs == { <<"small", "all">>, <<"show", "how">> }

InfixPairs == { <<"smallest", "all">> }

\* str.lower() on one word.
LowerTable == [w \in {"Rahul", "Sharma", "Show", "UPI", "Total", "SAVINGS"} |->
    CASE w = "Rahul" -> "rahul" [] w = "Sharma" -> "sharma"
      [] w = "Show" -> "show" [] w = "UPI" -> "upi"
      [] w = "Total" -> "total" [] w = "SAVINGS" -> "savings"]

LowerWord(w) == IF w \in DOMAIN LowerTable THEN LowerTable[w] ELSE w

Lower(q) == [i \in 1..Len(q) |-> LowerWord(q[i])]

StartsWith(w, kw) == w = kw \/ <<w, kw>> \in PrefixPairs

EndsWith(w, kw) == w = kw \/ <<w, kw>> \in SuffixPairs

Contains(w, kw) ==
    w = kw \/ <<w, kw>> \in (PrefixPairs \cup SuffixPairs \cup InfixPairs)

\* `kw in text` for a keyword of one or more words (a sequence of words):
\* the first word may end a word of the text, the last may start one.
KwAt(q, kw, i) ==
    /\ i + Len(kw) - 1 <= Len(q)
    /\ IF Len(kw) = 1 THEN Contains(q[i], kw[1])
       ELSE /\ EndsWith(q[i], kw[1])
            /\ StartsWith(q[i + Len(kw) - 1], kw[Len(kw)])
            /\ \A j \in 2..(Len(kw) - 1) : q[i + j - 1] = kw[j]

HasKw(q, kw) == \E i \in 1..Len(q) : KwAt(q, kw, i)

AnyKw(q, kws) == \E kw \in kws : HasKw(q, kw)

\* re.search(r'\b(20\d{2})\b') and re.match(r'^202[0-9]$') on one word.
YearWords == {"2019", "2024"}

YearValue(w) == IF w = "2019" THEN 2019 ELSE 2024

IsYear202x(w) == w = "2024"

MonthWords == {"january", "march", "may"}

\* ------------------------------------------------------------ query mode
\* counting_patterns of detect_query_mode, one operator per regex.
CountWords == {"kitne", "count", "total"}

\* \b(how many|kitne|count|total)\s+.*?transaction
CountingP1(q) ==
    \E i \in 1..Len(q) : \E j \in 1..Len(q) :
        /\ Contains(q[j], "transaction")
        /\ \/ q[i] \in CountWords /\ j > i
           \/ q[i] = "how" /\ i + 1 <= Len(q) /\ q[i + 1] = "many" /\ j > i + 1

\* transaction.*?\b(how many|kitne|count|total)
CountingP2(q) ==
    \E i \in 1..Len(q) : \E j \in 1..Len(q) :
        /\ Contains(q[i], "transaction")
        /\ j > i
        /\ \/ \E c \in CountWords : StartsWith(q[j], c)
           \/ q[j] = "how" /\ j + 1 <= Len(q) /\ StartsWith(q[j + 1], "many")

\* \b(how|kitne)\s+many\b
CountingP5(q) ==
    \E i \in 1..(Len(q) - 1) : q[i] \in {"how", "kitne"} /\ q[i + 1] = "many"

\* \bnumber of\s+transaction
CountingP6(q) ==
    \E i \in 1..(Len(q) - 2) :
        q[i] = "number" /\ q[i + 1] = "of" /\ StartsWith(q[i + 2], "transaction")

\* The Devanagari patterns (3 and 4) match no word of the vocabulary.
ClassifierCounting(q) ==
    CountingP1(q) \/ CountingP2(q) \/ CountingP5(q) \/ CountingP6(q)

HasAccountKeyword(q) == \E i \in 1..Len(q) : q[i] \in {"account", "acc"}

\* The words of the vocabulary that hold a UUID (account_pattern).
UuidWords == {"0a1b2c3d-0000-4000-8000-00000000000a"}

HasAccount(q) == \E i \in 1..Len(q) : q[i] \in UuidWords

ExcludePatterns ==
    { <<"account", "number">>, <<"transaction", "number">>,
      <<"reference", "number">> }

StatsKeywords ==
    { <<"total", "amount">>, <<"sum", "of">>, <<"average", "amount">>,
      <<"count", "of">>, <<"how", "many", "transactions">>,
      <<"kitne", "transactions">> }

FullScanKeywords ==
    { <<"all">>, <<"saari">>, <<"sabhi">>, <<"sab">>, <<"every">>,
      <<"show", "me">>, <<"dikhao">>, <<"list">>, <<"display">>,
      <<"between">>, <<"above">>, <<"below">>, <<"largest">>,
      <<"smallest">> }

\* The words rule 2 takes as the intent to list.
IntentWordsListing ==
    { <<"saari">>, <<"all">>, <<"list">>, <<"dikhao">> }

IntentWords ==
    { <<"transaction">>, <<"saari">>, <<"all">>, <<"list">>, <<"dikhao">> }

\* Rule 2: an account number or keyword together with an intent word.
AccountWithIntent(q) ==
    (HasAccount(q) \/ HasAccountKeyword(q)) /\ AnyKw(q, IntentWords)

\* Rule 6: analytical_keywords.
AnalyticalKeywords ==
    { <<"summarize">>, <<"summarise">>, <<"summary">>, <<"analyze">>,
      <<"analyse">>, <<"analysis">>, <<"insights">>, <<"patterns">>,
      <<"trends">>, <<"overview">>, <<"explain">>,
      <<"tell", "me", "about">>, <<"what", "happened">>, <<"describe">>,
      <<"understand">>, <<"help", "me">>, <<"guide">>, <<"advice">>,
      <<"recommend">>, <<"suggest">>, <<"why">>, <<"how">>, <<"when">>,
      <<"where">>, <<"what">>, <<"batao">>, <<"samjhao">>, <<"bataiye">>,
      <<"explain", "karo">>, <<"kya", "hua">> }

\* Rules 4 to 7: full scan keywords, date period, analytical, default.
RulesFrom4(q) ==
    IF AnyKw(q, FullScanKeywords) THEN "SMART_FULL"
    ELSE IF /\ \E i \in 1..Len(q) : q[i] \in YearWords \/ q[i] \in MonthWords
            /\ HasKw(q, <<"transaction">>)
         THEN "SMART_FULL"
    ELSE IF AnyKw(q, AnalyticalKeywords) THEN "VECTOR_SEARCH"
    ELSE "VECTOR_SEARCH"

\* Variant: the full scan keywords are looked at before the statistical
\* ones.
RulesFrom3FullScanFirst(q) ==
    IF AnyKw(q, FullScanKeywords) THEN "SMART_FULL"
    ELSE IF ~AnyKw(q, ExcludePatterns) /\ AnyKw(q, StatsKeywords)
         THEN "STATISTICAL"
    ELSE RulesFrom4(q)

\* Rules 3 to 7.
RulesFrom3(q) ==
    IF ~AnyKw(q, ExcludePatterns) /\ AnyKw(q, StatsKeywords)
    THEN "STATISTICAL"
    ELSE RulesFrom4(q)

\* Rules 2 to 7.
RulesFrom2(q) ==
    IF AccountWithIntent(q) THEN "SMART_FULL" ELSE RulesFrom3(q)

\* Variant: the counting patterns are looked at last.
detect_query_mode_counting_last(question) ==
    RulesFrom2(Lower(question))

detect_query_mode(question) ==
    LET q == Lower(question) IN
    IF ClassifierCounting(q) THEN "VECTOR_SEARCH"
    ELSE RulesFrom2(q)

\* The handler's own detection inside the VECTOR_SEARCH branch.
OrchestratorAnalyticalKeywords ==
    { <<"summarize">>, <<"summarise">>, <<"summary">>, <<"analyze">>,
      <<"analyse">>, <<"overview">>, <<"insights">>, <<"patterns">>,
      <<"trends">> }

OrchestratorCounting(q) == CountingP1(q) \/ CountingP2(q) \/ CountingP6(q)

is_analytical(prompt) ==
    LET q == Lower(prompt) IN
    AnyKw(q, OrchestratorAnalyticalKeywords) \/ OrchestratorCounting(q)

\* ---------------------------------------------------------------- filters
NoAmount == 0 - 1

NoDate == [month |-> 0, year |-> 0]

\* The dict extract_filters_from_query starts from (every field None).
EmptyFilters ==
    [amount_above |-> NoAmount, amount_below |-> NoAmount,
     amount_range |-> <<>>, date_filter |-> NoDate, mode |-> None,
     type |-> None, account_id |-> None, person_name |-> <<>>,
     strict_name_match |-> FALSE]

\* months_hindi in insertion order, as far as the vocabulary reaches.
MonthLexicon ==
    << <<"january", 1>>, <<"jan", 1>>, <<"march", 3>>, <<"mar", 3>>,
       <<"may", 5>> >>

\* The numeric words of the vocabulary: value after the k/l conversion, and
\* the number its first four digits spell (0: fewer than four digits).
NumberWords == {"0", "20", "40", "500", "2019", "2024", "5k"}

NumberValue(w) ==
    CASE w = "0" -> 0 [] w = "20" -> 20 [] w = "40" -> 40 [] w = "500" -> 500
      [] w = "2019" -> 2019 [] w = "2024" -> 2024 [] w = "5k" -> 5000

FirstFourDigits(w) ==
    CASE w = "2019" -> 2019 [] w = "2024" -> 2024 [] OTHER -> 0

RECURSIVE FirstMonth(_, _)
FirstMonth(q, i) ==
    IF i > Len(MonthLexicon) THEN <<>>
    ELSE IF HasKw(q, <<MonthLexicon[i][1]>>) THEN MonthLexicon[i]
    ELSE FirstMonth(q, i + 1)

\* re.search(rf'{month_name}\s*(\d{4})'): 0 when there is no match.
YearAfter(q, name) ==
    LET hits == {i \in 1..(Len(q) - 1) :
                    /\ EndsWith(q[i], name)
                    /\ q[i + 1] \in NumberWords
                    /\ FirstFourDigits(q[i + 1]) # 0}
    IN  IF hits = {} THEN 0
        ELSE FirstFourDigits(q[(CHOOSE i \in hits : \A j \in hits : i <= j) + 1])

ExtractDate(q) ==
    LET m == FirstMonth(q, 1) IN
    IF m # <<>> THEN [month |-> m[2], year |-> YearAfter(q, m[1])]
    ELSE LET ys == {i \in 1..Len(q) : q[i] \in YearWords} IN
         IF ys = {} THEN NoDate
         ELSE [month |-> 0,
               year |-> YearValue(q[CHOOSE i \in ys : \A j \in ys : i <= j])]

IsAmountWord(w) == w \in NumberWords /\ ~IsYear202x(w)

amounts_processed(q) ==
    LET ws == SelectSeq(q, IsAmountWord) IN
    [i \in 1..Len(ws) |-> NumberValue(ws[i])]

AboveWords ==
    { <<"above">>, <<"greater", "than">>, <<"more", "than">>, <<"over">>,
      <<"zyada">>, <<"se", "zyada">> }

BelowWords ==
    { <<"below">>, <<"less", "than">>, <<"under">>, <<"kam">>,
      <<"se", "kam">> }

ExtractAmount(q, f) ==
    LET a == amounts_processed(q) IN
    IF HasKw(q, <<"between">>) /\ Len(a) >= 2
    THEN [f EXCEPT !.amount_range =
            IF a[1] > a[2] THEN <<a[2], a[1]>> ELSE <<a[1], a[2]>>]
    ELSE IF AnyKw(q, AboveWords)
    THEN (IF Len(a) > 0 THEN [f EXCEPT !.amount_above = a[1]] ELSE f)
    ELSE IF AnyKw(q, BelowWords)
    THEN (IF Len(a) > 0 THEN [f EXCEPT !.amount_below = a[1]] ELSE f)
    ELSE f

Modes ==
    << <<"UPI", <<"upi">> >>, <<"CASH", <<"cash">> >>,
       <<"NEFT", <<"neft">> >>, <<"IMPS", <<"imps">> >>,
       <<"RTGS", <<"rtgs">> >>, <<"DEBIT CARD", <<"debit", "card">> >>,
       <<"CREDIT CARD", <<"credit", "card">> >> >>

RECURSIVE FirstMode(_, _)
FirstMode(q, i) ==
    IF i > Len(Modes) THEN None
    ELSE IF HasKw(q, Modes[i][2]) THEN Modes[i][1]
    ELSE FirstMode(q, i + 1)

ExtractType(q) ==
    IF AnyKw(q, { <<"credit">>, <<"credited">> }) THEN "CREDIT"
    ELSE IF AnyKw(q, { <<"debit">>, <<"debited">> }) THEN "DEBIT"
    ELSE None

\* The account filter: a UUID anywhere, else the token that follows
\* account|acc and an optional number|no.  The regex is not anchored to
\* words: when "account" ends the text, "acc" matches and "ount" is taken.
RECURSIVE AccountFrom(_, _)
AccountFrom(q, i) ==
    IF i > Len(q) THEN None
    ELSE IF q[i] \in {"account", "acc"}
    THEN IF i + 2 <= Len(q) /\ q[i + 1] \in {"number", "no"} THEN q[i + 2]
         ELSE IF i + 1 <= Len(q) THEN q[i + 1]
         ELSE IF q[i] = "account" THEN "ount"
         ELSE None
    ELSE AccountFrom(q, i + 1)

ExtractAccount(q) ==
    LET us == {i \in 1..Len(q) : q[i] \in UuidWords} IN
    IF us # {} THEN q[CHOOSE i \in us : \A j \in us : i <= j]
    ELSE AccountFrom(q, 1)

\* [A-Z][a-z]+ on one word of the question as it was written.
CapWords == {"Rahul", "Sharma", "Show"}

NamePrepositions == {"by", "from", "to", "with", "se", "ko"}

\* The capitalised words that follow position i without a gap.
RECURSIVE CapRun(_, _)
CapRun(question, i) ==
    IF i <= Len(question) /\ question[i] \in CapWords
    THEN <<question[i]>> \o CapRun(question, i + 1)
    ELSE <<>>

\* The person name: the first preposition followed by two or more
\* capitalised words gives a strict name; failing that, the first
\* preposition followed by one gives a loose name.
ExtractPerson(question) ==
    LET runs == [i \in 1..Len(question) |->
                    IF \E p \in NamePrepositions : EndsWith(question[i], p)
                    THEN CapRun(question, i + 1) ELSE <<>>]
        full == {i \in 1..Len(question) : Len(runs[i]) >= 2}
        single == {i \in 1..Len(question) : Len(runs[i]) >= 1}
    IN  IF full # {}
        THEN [name |-> runs[CHOOSE i \in full : \A j \in full : i <= j],
              strict |-> TRUE]
        ELSE IF single # {}
        THEN [name |-> <<runs[CHOOSE i \in single :
                                 \A j \in single : i <= j][1]>>,
              strict |-> FALSE]
        ELSE [name |-> <<>>, strict |-> FALSE]

extract_filters_from_query(question) ==
    LET q == Lower(question)
        f == [EmptyFilters EXCEPT !.date_filter = ExtractDate(q),
                                  !.mode = FirstMode(q, 1),
                                  !.type = ExtractType(q),
                                  !.account_id = ExtractAccount(q),
                                  !.person_name = ExtractPerson(question).name,
                                  !.strict_name_match =
                                      ExtractPerson(question).strict]
    IN  ExtractAmount(q, f)

\* datetime.strptime(date_str[:10], '%Y-%m-%d'): ok is FALSE when it raises.
strptime(s) ==
    CASE s = "2024-03-15" -> [ok |-> TRUE, year |-> 2024, month |-> 3]
      [] s = "2024-03-20" -> [ok |-> TRUE, year |-> 2024, month |-> 3]
      [] s = "2019-01-02" -> [ok |-> TRUE, year |-> 2019, month |-> 1]
      [] OTHER -> [ok |-> FALSE, year |-> 0, month |-> 0]

MonthNames == <<"Jan", "Feb", "Mar", "Apr", "May", "Jun",
                "Jul", "Aug", "Sep", "Oct", "Nov", "Dec">>

\* A filter description: which filter it reports, and the text, numbers or
\* name formatted into it.
Desc(label, text, a, b) ==
    [label |-> label, text |-> text, a |-> a, b |-> b, name |-> <<>>]

NameDesc(label, name) ==
    [label |-> label, text |-> "", a |-> 0, b |-> 0, name |-> name]

\* The outcome of one stage: the records kept and the descriptions added, or
\* an exception that leaves apply_filters without a value.
Pass(docs, desc) == [docs |-> docs, desc |-> desc, raised |-> FALSE]

Raised == [docs |-> <<>>, desc |-> <<>>, raised |-> TRUE]

\* The date stage reads createdAt inside try/except: it never raises.
DateStage(docs, f) ==
    LET df == f.date_filter
        Keep(d) ==
            /\ d.createdAt # ""
            /\ strptime(d.createdAt).ok
            /\ (df.year # 0 => strptime(d.createdAt).year = df.year)
            /\ (df.month # 0 => strptime(d.createdAt).month = df.month)
    IN  IF df = NoDate THEN Pass(docs, <<>>)
        ELSE Pass(SelectSeq(docs, Keep),
                  IF df.month # 0 /\ df.year # 0
                  THEN << Desc("Date", MonthNames[df.month], df.year, 0) >>
                  ELSE IF df.year # 0
                  THEN << Desc("Year", "", df.year, 0) >>
                  ELSE <<>>)

\* str.upper() on the modes a record may carry.
UpperMode(m) ==
    CASE m = "upi" -> "UPI"
      [] m = "cash" -> "CASH"
      [] OTHER -> m

\* Variant: the mode filter is described only when it removed a record.
ModeStageIfEffective(docs, f) ==
    LET Keep(d) == UpperMode(d.mode) = UpperMode(f.mode) IN
    IF f.mode = None THEN Pass(docs, <<>>)
    ELSE IF \E i \in 1..Len(docs) : docs[i].mode = Null THEN Raised
    ELSE Pass(SelectSeq(docs, Keep),
              IF Len(SelectSeq(docs, Keep)) < Len(docs)
              THEN << Desc("Mode", f.mode, 0, 0) >> ELSE <<>>)

\* d.get('mode', ...).upper() == mode.upper(); None has no upper().
ModeStage(docs, f) ==
    LET Keep(d) == UpperMode(d.mode) = UpperMode(f.mode) IN
    IF f.mode = None THEN Pass(docs, <<>>)
    ELSE IF \E i \in 1..Len(docs) : docs[i].mode = Null THEN Raised
    ELSE Pass(SelectSeq(docs, Keep), << Desc("Mode", f.mode, 0, 0) >>)

\* txn_type in d.get('pk_GSI_1', ''); "in None" is a TypeError.
TypeStage(docs, f) ==
    LET Keep(d) == d.pk_GSI_1 = (IF f.type = "CREDIT" THEN "TYPE#CREDIT"
                                 ELSE "TYPE#DEBIT") IN
    IF f.type = None THEN Pass(docs, <<>>)
    ELSE IF \E i \in 1..Len(docs) : docs[i].pk_GSI_1 = Null THEN Raised
    ELSE Pass(SelectSeq(docs, Keep), << Desc("Type", f.type, 0, 0) >>)

\* filters.get(...) is tested for truth: None and 0 both skip the branch.
Truthy(x) == x # NoAmount /\ x # 0

\* float(d.get('amount', 0)) raises on null and on a non-numeric string.
FloatRaises(docs) == \E i \in 1..Len(docs) : docs[i].amount = BadAmount

AmountStage(docs, f) ==
    LET InRange(d) == f.amount_range[1] <= d.amount
                      /\ d.amount <= f.amount_range[2]
        Above(d) == d.amount > f.amount_above
        Below(d) == d.amount < f.amount_below
    IN  IF f.amount_range # <<>>
        THEN IF FloatRaises(docs) THEN Raised
             ELSE Pass(SelectSeq(docs, InRange),
                       << Desc("Amount", "", f.amount_range[1],
                               f.amount_range[2]) >>)
        ELSE IF Truthy(f.amount_above)
        THEN IF FloatRaises(docs) THEN Raised
             ELSE Pass(SelectSeq(docs, Above),
                       << Desc("Amount above", "", f.amount_above, 0) >>)
        ELSE IF Truthy(f.amount_below)
        THEN IF FloatRaises(docs) THEN Raised
             ELSE Pass(SelectSeq(docs, Below),
                       << Desc("Amount below", "", f.amount_below, 0) >>)
        ELSE Pass(docs, <<>>)

\* d.get('accountId', ...).lower() == acc_id.lower(); None has no lower().
AccountStage(docs, f) ==
    LET Keep(d) == LowerWord(d.accountId) = LowerWord(f.account_id) IN
    IF f.account_id = None THEN Pass(docs, <<>>)
    ELSE IF \E i \in 1..Len(docs) : docs[i].accountId = Null THEN Raised
    ELSE Pass(SelectSeq(docs, Keep), << Desc("Account", f.account_id, 0, 0) >>)

\* A null narration.
NullNarration == << Null >>

\* \bw1\s+w2...\b, ignoring case: the words of the name are whole words of
\* the narration, one after another.
WordsAt(narration, name, i) ==
    /\ i + Len(name) - 1 <= Len(narration)
    /\ \A k \in 1..Len(name) :
           LowerWord(narration[i + k - 1]) = LowerWord(name[k])

\* name.lower() in narration.lower(): the name may begin and end inside a
\* word of the narration.
SubstringAt(narration, name, i) ==
    /\ i + Len(name) - 1 <= Len(narration)
    /\ IF Len(name) = 1
       THEN Contains(LowerWord(narration[i]), LowerWord(name[1]))
       ELSE /\ EndsWith(LowerWord(narration[i]), LowerWord(name[1]))
            /\ StartsWith(LowerWord(narration[i + Len(name) - 1]),
                          LowerWord(name[Len(name)]))
            /\ \A k \in 2..(Len(name) - 1) :
                   LowerWord(narration[i + k - 1]) = LowerWord(name[k])

PersonStage(docs, f) ==
    LET name == f.person_name
        Whole(d) == \E i \in 1..Len(d.narration) : WordsAt(d.narration, name, i)
        Part(d) ==
            \E i \in 1..Len(d.narration) : SubstringAt(d.narration, name, i)
        Strict(d) == IF Len(name) >= 2 THEN Whole(d) ELSE Part(d)
    IN  IF name = <<>> THEN Pass(docs, <<>>)
        ELSE IF \E i \in 1..Len(docs) : docs[i].narration = NullNarration
        THEN Raised
        ELSE IF f.strict_name_match
        THEN Pass(SelectSeq(docs, Strict),
                  << NameDesc("EXACT name", name) >>)
        ELSE Pass(SelectSeq(docs, Part), << NameDesc("Person", name) >>)

apply_filters(documents, f) ==
    LET s1 == DateStage(documents, f)
        s2 == ModeStage(s1.docs, f)
        s3 == TypeStage(s2.docs, f)
        s4 == AmountStage(s3.docs, f)
        s5 == AccountStage(s4.docs, f)
        s6 == PersonStage(s5.docs, f)
    IN  IF s2.raised \/ s3.raised \/ s4.raised \/ s5.raised \/ s6.raised
        THEN Raised
        ELSE Pass(s6.docs, s1.desc \o s2.desc \o s3.desc \o s4.desc
                           \o s5.desc \o s6.desc)

Amounts(docs) == [i \in 1..Len(docs) |-> docs[i].amount]

\* Averages are kept as the pair (total, count): no division is rounded.
ZeroStats == [count |-> 0, total |-> 0, max |-> 0, min |-> 0]

\* calculate_statistics left by an exception, its own or apply_filters'.
StatsRaised == [raised |-> TRUE]

calculate_statistics(documents, f) ==
    LET filtered == apply_filters(documents, f) IN
    IF filtered.raised \/ FloatRaises(filtered.docs) THEN StatsRaised
    ELSE IF filtered.docs = <<>> THEN ZeroStats
    ELSE [count |-> Len(filtered.docs),
          total |-> SumSeq(Amounts(filtered.docs)),
          max |-> MaxSeq(Amounts(filtered.docs)),
          min |-> MinSeq(Amounts(filtered.docs))]

\* ------------------------------------------------------------- pagination
\* sorted(..., key=amount, reverse=True) is stable: records of equal amount
\* keep their input order.
RECURSIVE InsertDesc(_, _)
InsertDesc(d, s) ==
    IF s = <<>> THEN <<d>>
    ELSE IF Head(s).amount >= d.amount THEN <<Head(s)>> \o InsertDesc(d, Tail(s))
    ELSE <<d>> \o s

RECURSIVE SortByAmountDesc(_)
SortByAmountDesc(docs) ==
    IF docs = <<>> THEN <<>>
    ELSE InsertDesc(docs[Len(docs)],
                    SortByAmountDesc(SubSeq(docs, 1, Len(docs) - 1)))

\* TransactionInfo built from one record.
format_transaction_for_api(d) ==
    [transaction_id |-> d.txnId, amount |-> d.amount, mode |-> d.mode,
     date |-> d.createdAt,
     type |-> IF d.pk_GSI_1 = "TYPE#CREDIT" THEN "CREDIT" ELSE "DEBIT"]

\* format_transaction_for_api raises: float() of an amount that is no
\* number, .replace on a null type tag, or TransactionInfo given null for
\* a field declared str.
FormatRaises(d) ==
    \/ d.amount = BadAmount
    \/ Null \in {d.txnId, d.accountId, d.createdAt, d.mode, d.pk_GSI_1}
    \/ d.narration = << Null >>

\* Variant: a slice that starts one record late.
SliceOneLate(s, start_idx, end_idx) ==
    SubSeq(s, start_idx + 2, Min2(end_idx, Len(s)))

\* sorted_docs[start_idx:end_idx] with Python's clamping of the slice.
Slice(s, start_idx, end_idx) ==
    SubSeq(s, start_idx + 1, Min2(end_idx, Len(s)))

\* The "Paginate results" block of query_with_prompt (both copies).
Paginate(filtered_docs, page, page_size) ==
    LET sorted_docs == SortByAmountDesc(filtered_docs)
        start_idx == (page - 1) * page_size
        end_idx == start_idx + page_size
        paginated_docs == Slice(sorted_docs, start_idx, end_idx)
    IN  [transactions |->
            [i \in 1..Len(paginated_docs) |->
                format_transaction_for_api(paginated_docs[i])],
         pagination |->
            [page |-> page, page_size |-> page_size,
             total_items |-> Len(filtered_docs),
             total_pages |-> (Len(filtered_docs) + page_size - 1) \div page_size,
             has_next |-> end_idx < Len(filtered_docs),
             has_prev |-> page > 1]]

\* The "Paginate results" block raises: in the sort key, or while the
\* records of the page are formatted.
PaginateRaises(filtered_docs, page, page_size) ==
    LET sorted_docs == SortByAmountDesc(filtered_docs)
        start_idx == (page - 1) * page_size
        paginated_docs == Slice(sorted_docs, start_idx, start_idx + page_size)
    IN  \/ \E i \in DOMAIN filtered_docs : filtered_docs[i].amount = BadAmount
        \/ \E i \in DOMAIN paginated_docs : FormatRaises(paginated_docs[i])

\* ------------------------------------------------------------------ state
NoneOf == <<>>

Some(x) == <<x>>

\* The prompts clients send.
Prompts ==
    { <<"total", "amount">>,
      <<"show", "all", "transactions">>,
      <<"list", "transactions", "above", "500">>,
      <<"summarize", "my", "spending">> }

PageSizes == {3}

\* Optional[bool] use_full_data.
Overrides == {"None", "True", "False"}

\* What the text generator may answer.
LlmTexts == {"text1"}

Answer(src, text, n) == [src |-> src, text |-> text, n |-> n]

\* The keys of the filters dict in the order extract_filters_from_query
\* inserts them.
FilterKeys ==
    << "amount_above", "amount_below", "amount_range", "date_filter", "mode",
       "type", "account_id", "person_name", "strict_name_match" >>

\* The keys in the order sort_keys=True writes them.
SortedKeys ==
    << "account_id", "amount_above", "amount_below", "amount_range",
       "date_filter", "mode", "person_name", "strict_name_match", "type" >>

\* A dict as Python keeps it: the (key, value) items in insertion order.
Items(filters, order) == [i \in 1..Len(order) |-> <<order[i], filters[order[i]]>>]

\* Variant: the items are written in insertion order.
json_dumps_unsorted(items) == items

\* json.dumps(filters, sort_keys=True): the items in the order of their keys.
json_dumps(items) ==
    LET Present(k) == \E i \in 1..Len(items) : items[i][1] = k
        ks == SelectSeq(SortedKeys, Present)
    IN  [j \in 1..Len(ks) |->
            items[CHOOSE i \in 1..Len(items) : items[i][1] = ks[j]]]

\* hashlib.md5(...).hexdigest(), taken to be free of collisions: the digest
\* stands for the text it was computed from.
md5(text) == <<"md5", text>>

\* generate_query_id on a dict given by its items: the digest of
\* f"{prompt}_{json.dumps(filters, sort_keys=True)}".  The prompt enters as
\* written, neither lowercased nor stripped.
QueryIdOfItems(prompt, items) == md5(<<prompt, "_", json_dumps(items)>>)

generate_query_id(prompt, filters) ==
    QueryIdOfItems(prompt, Items(filters, FilterKeys))

\* PromptRequest.query_id when the client sends none.
NoId == <<>>

\* What a client sends as (prompt, query_id): any prompt without an
\* identity, or the identity of an earlier response to "show all
\* transactions" with another prompt.
ClientId ==
    generate_query_id(<<"show", "all", "transactions">>,
                      extract_filters_from_query(
                          <<"show", "all", "transactions">>))

Arrivals ==
    {<<p, NoId>> : p \in Prompts} \cup {<<<<"total", "amount">>, ClientId>>}

Requests == 1..NumRequests

VARIABLES
    now,                  \* datetime.now(), in minutes
    ticks,                \* how often the clock has advanced
    models_ready,         \* embeddings_model and llm are set (lifespan)
    ingested_data_store,  \* [transactions, vectorstore]
    query_cache,          \* query_id -> cache entry
    pc,                   \* per request: where its handler stands
    req,                  \* per request: the PromptRequest
    loc,                  \* per request: the handler's locals
    resp,                 \* per request: the response, once there is one
    starts,               \* requests accepted so far
    call,                 \* a function under examination: input, then result
    ingest                \* the response of the /ingest call under way

vars == <<now, ticks, models_ready, ingested_data_store, query_cache,
          pc, req, loc, resp, starts, call, ingest>>

\* No function is under examination.
NoCall == [fn |-> "none"]

\* A request field is drawn where the handler first reads it; until then it
\* holds the value below.  The handler cannot depend on a field before it
\* reads it, so this is the request fixed at arrival.
NoReq == [prompt |-> <<>>, page |-> 0, page_size |-> 0, show_all |-> FALSE,
          use_full_data |-> "None", query_id |-> NoId]

NoLoc ==
    [query_id |-> NoId, filters |-> EmptyFilters, expired_keys |-> {},
     current_time |-> 0, cached_data |-> NoneOf, mode |-> None,
     filtered_docs |-> <<>>, filter_descriptions |-> <<>>,
     classified |-> 0, filter_runs |-> 0, stats_runs |-> 0,
     llm_calls |-> 0, index_calls |-> 0, pipeline |-> FALSE,
     llm_failed |-> FALSE, evicted |-> FALSE]

NoResp == [status |-> 0]

Init ==
    /\ now = 0
    /\ ticks = 0
    /\ models_ready \in BOOLEAN
    /\ ingested_data_store = [transactions |-> <<>>, vectorstore |-> NoneOf]
    /\ query_cache = [k \in {} |-> NoResp]
    /\ pc = [r \in Requests |-> "idle"]
    /\ req = [r \in Requests |-> NoReq]
    /\ loc = [r \in Requests |-> NoLoc]
    /\ resp = [r \in Requests |-> NoResp]
    /\ starts = 0
    /\ call = NoCall
    /\ ingest = NoResp

\* ------------------------------------------------------------------ cache
\* Variant: an entry of age exactly the TTL is no longer valid.
IsValidBelowTTL(timestamp, current_time) ==
    current_time - timestamp < CACHE_TTL_MINUTES

\* Variant: a lookup that does not sweep.
ExpiredKeysNoSweep(cache, current_time) == {}

\* Variant: a put that keeps the insertion time of an entry it replaces.
cache_query_results_keep(cache, query_id, answer, mode, filtered_docs, filters_applied, statistics, t) ==
    [k \in (DOMAIN cache) \cup {query_id} |->
        IF k = query_id
        THEN [answer |-> answer, mode |-> mode,
              filtered_docs |-> filtered_docs,
              filters_applied |-> filters_applied,
              statistics |-> statistics,
              timestamp |-> IF k \in DOMAIN cache THEN cache[k].timestamp
                            ELSE t]
        ELSE cache[k]]

\* cleanup_expired_cache, line 31.
IsExpired(timestamp, current_time) ==
    current_time - timestamp > CACHE_TTL_MINUTES

\* get_cached_query, line 45.
IsValid(timestamp, current_time) ==
    current_time - timestamp <= CACHE_TTL_MINUTES

\* cleanup_expired_cache, first loop.
ExpiredKeys(cache, current_time) ==
    {k \in DOMAIN cache : IsExpired(cache[k].timestamp, current_time)}

Without(cache, keys) == [k \in (DOMAIN cache) \ keys |-> cache[k]]

\* cache_query_results: the dict after the assignment, at time t.
cache_query_results(cache, query_id, answer, mode, filtered_docs, filters_applied, statistics, t) ==
    [k \in (DOMAIN cache) \cup {query_id} |->
        IF k = query_id
        THEN [answer |-> answer, mode |-> mode,
              filtered_docs |-> filtered_docs,
              filters_applied |-> filters_applied,
              statistics |-> statistics, timestamp |-> t]
        ELSE cache[k]]

\* Variant: handlers that yield between their steps.
EventLoopYields(r) == TRUE

\* ------------------------------------------------------------- scheduling
\* The handlers are coroutines (async def) that never await: the event
\* loop runs one to its end before it starts another.
EventLoopFree(r) ==
    /\ \A o \in Requests \ {r} : pc[o] = "idle"
    /\ ingest = NoResp

has_ingested_data == Len(ingested_data_store.transactions) > 0

Error(code) == [status |-> code]

Finish(r, response) ==
    /\ resp' = [resp EXCEPT ![r] = response]
    /\ pc' = [pc EXCEPT ![r] = "done"]

\* ----------------------------------------------------------------- clock
\* How far the clock moves at once: a moment, the TTL exactly, or past it.
TickSteps == {1, CACHE_TTL_MINUTES, CACHE_TTL_MINUTES + 1}

\* The handler reads the clock in the sweep, in the lookup and at the cache
\* write.  Time advances between requests, between the two reads of
\* get_cached_query, and while a text generator call is pending.
ClockPoints == {"idle", "lookup", "smart_full_llm"}

Tick ==
    /\ ticks < MaxTicks
    /\ \A r \in Requests : pc[r] \in ClockPoints
    /\ ingest = NoResp
    /\ \E d \in TickSteps : now' = now + d
    /\ ticks' = ticks + 1
    /\ UNCHANGED <<models_ready, ingested_data_store, query_cache, pc, req,
                   loc, resp, starts>>
    /\ UNCHANGED <<call, ingest>>

\* ---------------------------------------------------------------- /ingest
\* A collaborator call that raises.
Failure == "failure"

\* Variant: the record set is stored without its index.
set_ingested_data_records_only(transactions, vectorstore) ==
    [transactions |-> transactions, vectorstore |-> NoneOf]

\* set_ingested_data: the record set and its index, assigned together.
set_ingested_data(transactions, vectorstore) ==
    [transactions |-> transactions, vectorstore |-> vectorstore]

IngestResponse(d) == [status |-> 200, transactions_ingested |-> Len(d)]

\* ingest_context_data: the models check, create_vector_store (which may
\* raise, ending the call with a 500), then set_ingested_data.
IngestOf(datasets) ==
    /\ \A o \in Requests : pc[o] = "idle"
    /\ ingest = NoResp
    /\ IF ~models_ready
       THEN /\ ingest' = Error(503)
            /\ UNCHANGED <<ingested_data_store, query_cache>>
       ELSE \E d \in datasets, outcome \in {"index", Failure} :
               IF outcome = Failure
               THEN /\ ingest' = Error(500)
                    /\ UNCHANGED <<ingested_data_store, query_cache>>
               ELSE /\ ingested_data_store' = set_ingested_data(d, Some(d))
                    /\ ingest' = IngestResponse(d)
                    /\ UNCHANGED query_cache
    /\ UNCHANGED <<now, ticks, models_ready, pc, req, loc, resp, starts>>
    /\ UNCHANGED call

Ingest == IngestOf(Datasets)

\* A later /ingest call, with another dataset.
Reingest ==
    /\ has_ingested_data
    /\ IngestOf(LaterDatasets)

\* The response of /ingest leaves the handler.
IngestDeliver ==
    /\ ingest # NoResp
    /\ ingest' = NoResp
    /\ UNCHANGED <<now, ticks, models_ready, ingested_data_store, query_cache,
                   pc, req, loc, resp, starts>>
    /\ UNCHANGED call

\* ---------------------------------------------------------------- /prompt
\* query_with_prompt up to the first loop of cleanup_expired_cache: the two
\* precondition checks, the filters, the query_id, and the expired keys
\* collected at current_time.
Arrive(r) ==
    /\ pc[r] = "idle"
    /\ \A o \in Requests : o < r => pc[o] # "idle"
    /\ EventLoopFree(r)
    /\ starts < MaxStarts
    /\ starts' = starts + 1
    /\ \E a \in Arrivals :
          LET p == a[1]
              qid == a[2]
              filters == extract_filters_from_query(p)
          IN
          /\ req' = [req EXCEPT ![r] =
                        [NoReq EXCEPT !.prompt = p, !.query_id = qid]]
          /\ IF ~models_ready
             THEN /\ Finish(r, Error(503))
                  /\ UNCHANGED loc
             ELSE IF ~has_ingested_data
             THEN /\ Finish(r, Error(400))
                  /\ UNCHANGED loc
             ELSE /\ loc' = [loc EXCEPT ![r] =
                        [NoLoc EXCEPT
                            !.filters = filters,
                            !.query_id =
                                IF qid # NoId THEN qid
                                ELSE generate_query_id(p, filters),
                            !.current_time = now,
                            !.expired_keys = ExpiredKeys(query_cache, now)]]
                  /\ pc' = [pc EXCEPT ![r] = "cleanup_delete"]
                  /\ UNCHANGED resp
    /\ UNCHANGED <<now, ticks, models_ready, ingested_data_store, query_cache>>
    /\ UNCHANGED <<call, ingest>>

\* cleanup_expired_cache, second loop: del query_cache[key]; a key that is
\* gone raises KeyError, which the handler turns into a 500.
CleanupDelete(r) ==
    /\ pc[r] = "cleanup_delete"
    /\ EventLoopFree(r)
    /\ query_cache' = Without(query_cache, loc[r].expired_keys)
    /\ IF loc[r].expired_keys \subseteq DOMAIN query_cache
       THEN /\ pc' = [pc EXCEPT ![r] = "lookup"]
            /\ UNCHANGED resp
       ELSE Finish(r, Error(500))
    /\ UNCHANGED <<now, ticks, models_ready, ingested_data_store, req, loc,
                   starts>>
    /\ UNCHANGED <<call, ingest>>

\* get_cached_query after the sweep: the entry if it is still valid, else
\* its removal and a miss.  query_cache[query_id] of an entry that is gone
\* by then raises KeyError.
Lookup(r) ==
    /\ pc[r] = "lookup"
    /\ EventLoopFree(r)
    /\ LET query_id == loc[r].query_id IN
       IF query_id \in DOMAIN query_cache
       THEN IF IsValid(query_cache[query_id].timestamp, now)
            THEN /\ loc' = [loc EXCEPT
                        ![r].cached_data = Some(query_cache[query_id])]
                 /\ UNCHANGED query_cache
            ELSE /\ query_cache' = Without(query_cache, {query_id})
                 /\ loc' = [loc EXCEPT ![r].evicted = TRUE]
       ELSE UNCHANGED <<loc, query_cache>>
    /\ \E pg \in 1..MaxPage : req' = [req EXCEPT ![r].page = pg]
    /\ pc' = [pc EXCEPT ![r] = "got"]
    /\ UNCHANGED <<now, ticks, models_ready, ingested_data_store, resp,
                   starts>>
    /\ UNCHANGED <<call, ingest>>

Response(query_id, mode, answer, count, filters_applied, page, statistics) ==
    [status |-> 200, query_id |-> query_id, mode |-> mode, answer |-> answer,
     matching_transactions_count |-> count,
     filters_applied |-> filters_applied,
     transactions |-> page.transactions, pagination |-> page.pagination,
     statistics |-> statistics]

NoPage == [transactions |-> NoneOf, pagination |-> NoneOf]

\* Variant: the page block always cuts the first page.
PageOfFirst(request, filtered_docs) ==
    IF request.show_all /\ filtered_docs # <<>>
    THEN LET pg == Paginate(filtered_docs, 1, request.page_size)
         IN  [transactions |-> Some(pg.transactions),
              pagination |-> Some(pg.pagination)]
    ELSE [transactions |-> NoneOf, pagination |-> NoneOf]

\* `if request.show_all and filtered_docs:` and the block under it.
PageOf(request, filtered_docs) ==
    IF request.show_all /\ filtered_docs # <<>>
    THEN LET pg == Paginate(filtered_docs, request.page, request.page_size)
         IN  [transactions |-> Some(pg.transactions),
              pagination |-> Some(pg.pagination)]
    ELSE NoPage

\* The block under `if request.show_all and filtered_docs:` raises; the
\* handler's except clause turns that into a 500.
PageOfRaises(request, filtered_docs) ==
    /\ request.show_all
    /\ filtered_docs # <<>>
    /\ PaginateRaises(filtered_docs, request.page, request.page_size)

\* Variant: the cached branch is taken on every page.
UsesCacheAnyPage(r) == loc[r].cached_data # NoneOf

\* Variant: the cached branch is never taken.
UsesCacheNever(r) == FALSE

\* `if cached_data and request.page > 1:`
UsesCache(r) == loc[r].cached_data # NoneOf /\ req[r].page > 1

\* The request with show_all and page_size read.
WithPaging(request, sa, ps) ==
    [request EXCEPT !.show_all = sa, !.page_size = ps]

\* The cached branch: the response is built from the entry.
CachedPage(r) ==
    /\ pc[r] = "got"
    /\ EventLoopFree(r)
    /\ UsesCache(r)
    /\ \E sa \in BOOLEAN, ps \in PageSizes :
          LET cached_data == loc[r].cached_data[1] IN
          /\ req' = [req EXCEPT ![r] = WithPaging(@, sa, ps)]
          /\ IF PageOfRaises(req'[r], cached_data.filtered_docs)
             THEN Finish(r, Error(500))
             ELSE Finish(r, Response(loc[r].query_id, cached_data.mode,
                          cached_data.answer, Len(cached_data.filtered_docs),
                          cached_data.filters_applied,
                          PageOf(req'[r], cached_data.filtered_docs),
                          cached_data.statistics))
    /\ UNCHANGED <<now, ticks, models_ready, ingested_data_store, query_cache,
                   loc, starts>>
    /\ UNCHANGED <<call, ingest>>

\* Variant: only an override of true is honoured.
ChosenModeTrueOnly(request) ==
    IF request.use_full_data = "True" THEN "SMART_FULL"
    ELSE detect_query_mode(request.prompt)

\* detect_query_mode and the use_full_data override.
ChosenMode(request) ==
    IF request.use_full_data = "True" THEN "SMART_FULL"
    ELSE IF request.use_full_data = "False" THEN "VECTOR_SEARCH"
    ELSE detect_query_mode(request.prompt)

\* Variant: STATISTICAL requests are answered by the text generator.
BranchGenerated(request, mode) ==
    IF mode = "SMART_FULL" \/ mode = "STATISTICAL"
       \/ request.use_full_data = "True"
    THEN "smart_full"
    ELSE IF is_analytical(request.prompt) THEN "analytical"
    ELSE "top_k"

\* The branch of the `if mode == ...` chain a request takes.
Branch(request, mode) ==
    IF mode = "STATISTICAL" THEN "statistical"
    ELSE IF mode = "SMART_FULL" \/ request.use_full_data = "True"
    THEN "smart_full"
    ELSE IF is_analytical(request.prompt) THEN "analytical"
    ELSE "top_k"

Classify(r) ==
    /\ pc[r] = "got"
    /\ EventLoopFree(r)
    /\ ~UsesCache(r)
    /\ \E ov \in Overrides :
          LET request == [req[r] EXCEPT !.use_full_data = ov]
              mode == ChosenMode(request)
          IN  /\ req' = [req EXCEPT ![r] = request]
              /\ loc' = [loc EXCEPT ![r].mode = mode,
                                    ![r].classified = @ + 1,
                                    ![r].pipeline = TRUE]
              /\ pc' = [pc EXCEPT ![r] = Branch(request, mode)]
    /\ UNCHANGED <<now, ticks, models_ready, ingested_data_store, query_cache,
                   resp, starts>>
    /\ UNCHANGED <<call, ingest>>

\* process_statistical_query, then the handler's own apply_filters and the
\* cache write.  No collaborator is called.
Statistical(r) ==
    /\ pc[r] = "statistical"
    /\ EventLoopFree(r)
    /\ LET documents == ingested_data_store.transactions
           filters == extract_filters_from_query(req[r].prompt)
           stats == calculate_statistics(documents, filters)
           inner == apply_filters(documents, filters)
           answer == Answer("statistics", "", stats.count)
           filtered_docs == apply_filters(documents, loc[r].filters).docs
       IN  /\ query_cache' =
                cache_query_results(query_cache, loc[r].query_id, answer,
                                    loc[r].mode, filtered_docs,
                                    Some(inner.desc), Some(stats), now)
           /\ loc' = [loc EXCEPT ![r].stats_runs = @ + 1,
                                 ![r].filter_runs = @ + 3,
                                 ![r].filtered_docs = filtered_docs,
                                 ![r].filter_descriptions = inner.desc]
           /\ Finish(r, Response(loc[r].query_id, loc[r].mode, answer,
                                 Len(inner.docs), Some(inner.desc), NoPage,
                                 Some(stats)))
    /\ UNCHANGED <<now, ticks, models_ready, ingested_data_store, req, starts>>
    /\ UNCHANGED <<call, ingest>>

\* The rest of the SMART_FULL branch once the answer is known: the cache
\* write, then the page, which may raise.
SmartFullFinish(r, answer, filtered_docs, filter_descriptions) ==
    /\ query_cache' =
          cache_query_results(query_cache, loc[r].query_id, answer,
                              loc[r].mode, filtered_docs,
                              Some(filter_descriptions), NoneOf, now)
    /\ \E sa \in BOOLEAN, ps \in PageSizes :
          /\ req' = [req EXCEPT ![r] = WithPaging(@, sa, ps)]
          /\ IF PageOfRaises(req'[r], filtered_docs)
             THEN Finish(r, Error(500))
             ELSE Finish(r, Response(loc[r].query_id, loc[r].mode, answer,
                                Len(filtered_docs), Some(filter_descriptions),
                                PageOf(req'[r], filtered_docs), NoneOf))

SmartFilter(r) ==
    apply_filters(ingested_data_store.transactions,
                  extract_filters_from_query(req[r].prompt))

\* process_smart_full_query when nothing matches: the fixed "no
\* transactions found" text, without a text generator call.
SmartFullEmpty(r) ==
    /\ pc[r] = "smart_full"
    /\ EventLoopFree(r)
    /\ SmartFilter(r).docs = <<>>
    /\ loc' = [loc EXCEPT ![r].filter_runs = @ + 1,
                          ![r].filter_descriptions = SmartFilter(r).desc]
    /\ SmartFullFinish(r, Answer("not_found", "", 0), <<>>,
                       SmartFilter(r).desc)
    /\ UNCHANGED <<now, ticks, models_ready, ingested_data_store, starts>>
    /\ UNCHANGED <<call, ingest>>

\* process_smart_full_query up to llm_instance.invoke(prompt).
SmartFullCall(r) ==
    /\ pc[r] = "smart_full"
    /\ EventLoopFree(r)
    /\ SmartFilter(r).docs # <<>>
    /\ loc' = [loc EXCEPT ![r].filter_runs = @ + 1,
                          ![r].filtered_docs = SmartFilter(r).docs,
                          ![r].filter_descriptions = SmartFilter(r).desc,
                          ![r].llm_calls = @ + 1]
    /\ pc' = [pc EXCEPT ![r] = "smart_full_llm"]
    /\ UNCHANGED <<now, ticks, models_ready, ingested_data_store, query_cache,
                   req, resp, starts>>
    /\ UNCHANGED <<call, ingest>>

\* generate_conversational_answer after the call: the generator's text, or
\* on an exception the template built from the filtered records.
conversational_answer(outcome, filtered_docs) ==
    IF outcome = Failure THEN Answer("template", "", Len(filtered_docs))
    ELSE Answer("llm", outcome, 0)

SmartFullReturn(r) ==
    /\ pc[r] = "smart_full_llm"
    /\ EventLoopFree(r)
    /\ \E outcome \in LlmTexts \cup {Failure} :
          /\ loc' = [loc EXCEPT ![r].llm_failed = (outcome = Failure)]
          /\ SmartFullFinish(r,
                conversational_answer(outcome, loc[r].filtered_docs),
                loc[r].filtered_docs, loc[r].filter_descriptions)
    /\ UNCHANGED <<now, ticks, models_ready, ingested_data_store, starts>>
    /\ UNCHANGED <<call, ingest>>

\* process_analytical_query up to chain.invoke(prompt_input).
AnalyticalCall(r) ==
    /\ pc[r] = "analytical"
    /\ EventLoopFree(r)
    /\ loc' = [loc EXCEPT ![r].llm_calls = @ + 1]
    /\ pc' = [pc EXCEPT ![r] = "analytical_llm"]
    /\ UNCHANGED <<now, ticks, models_ready, ingested_data_store, query_cache,
                   req, resp, starts>>
    /\ UNCHANGED <<call, ingest>>

\* The call returns: the result is cached with no records and no
\* descriptions; an exception leaves the handler as a 500.
AnalyticalReturn(r) ==
    /\ pc[r] = "analytical_llm"
    /\ EventLoopFree(r)
    /\ \E outcome \in LlmTexts \cup {Failure} :
          /\ loc' = [loc EXCEPT ![r].llm_failed = (outcome = Failure)]
          /\ IF outcome = Failure
             THEN /\ Finish(r, Error(500))
                  /\ UNCHANGED query_cache
             ELSE /\ query_cache' =
                        cache_query_results(query_cache, loc[r].query_id,
                                            Answer("llm", outcome, 0),
                                            loc[r].mode, <<>>, NoneOf, NoneOf,
                                            now)
                  /\ Finish(r, Response(loc[r].query_id, loc[r].mode,
                                        Answer("llm", outcome, 0),
                                        Len(ingested_data_store.transactions),
                                        NoneOf, NoPage, NoneOf))
    /\ UNCHANGED <<now, ticks, models_ready, ingested_data_store, req, starts>>
    /\ UNCHANGED <<call, ingest>>

\* process_vector_search_query: rag_chain.invoke starts with the retriever.
TopKCall(r) ==
    /\ pc[r] = "top_k"
    /\ EventLoopFree(r)
    /\ loc' = [loc EXCEPT ![r].index_calls = @ + 1]
    /\ pc' = [pc EXCEPT ![r] = "top_k_chain"]
    /\ UNCHANGED <<now, ticks, models_ready, ingested_data_store, query_cache,
                   req, resp, starts>>
    /\ UNCHANGED <<call, ingest>>

IndexFailure == "index failure"

\* The chain ends: the retriever failed, or the generator was called and
\* failed or answered.  Nothing is cached.
TopKReturn(r) ==
    /\ pc[r] = "top_k_chain"
    /\ EventLoopFree(r)
    /\ \E outcome \in LlmTexts \cup {Failure, IndexFailure} :
          /\ loc' = [loc EXCEPT
                  ![r].llm_calls = IF outcome = IndexFailure THEN @ ELSE @ + 1,
                  ![r].llm_failed = (outcome \in {Failure, IndexFailure})]
          /\ IF outcome \in {Failure, IndexFailure}
             THEN Finish(r, Error(500))
             ELSE Finish(r, Response(loc[r].query_id, loc[r].mode,
                            Answer("llm", outcome, 0),
                            Min2(DEFAULT_K,
                                 Len(ingested_data_store.transactions)),
                            NoneOf, NoPage, NoneOf))
    /\ UNCHANGED <<now, ticks, models_ready, ingested_data_store, query_cache,
                   req, starts>>
    /\ UNCHANGED <<call, ingest>>

\* The response leaves the handler; the slot is free for the next request.
Deliver(r) ==
    /\ pc[r] = "done"
    /\ pc' = [pc EXCEPT ![r] = "idle"]
    /\ req' = [req EXCEPT ![r] = NoReq]
    /\ loc' = [loc EXCEPT ![r] = NoLoc]
    /\ resp' = [resp EXCEPT ![r] = NoResp]
    /\ UNCHANGED <<now, ticks, models_ready, ingested_data_store, query_cache,
                   starts>>
    /\ UNCHANGED <<call, ingest>>

Next ==
    \/ Tick
    \/ Ingest
    \/ IngestDeliver
    \/ \E r \in Requests : Arrive(r)
    \/ \E r \in Requests : CleanupDelete(r)
    \/ \E r \in Requests : Lookup(r)
    \/ \E r \in Requests : CachedPage(r)
    \/ \E r \in Requests : Classify(r)
    \/ \E r \in Requests : Statistical(r)
    \/ \E r \in Requests : SmartFullEmpty(r)
    \/ \E r \in Requests : SmartFullCall(r)
    \/ \E r \in Requests : SmartFullReturn(r)
    \/ \E r \in Requests : AnalyticalCall(r)
    \/ \E r \in Requests : AnalyticalReturn(r)
    \/ \E r \in Requests : TopKCall(r)
    \/ \E r \in Requests : TopKReturn(r)
    \/ \E r \in Requests : Deliver(r)

Spec == Init /\ [][Next]_vars

\* The service when the dataset is replaced while it runs.
NextReingest ==
    \/ Next
    \/ Reingest

SpecReingest == Init /\ [][NextReingest]_vars

\* ------------------------------------------------- the functions, alone
\* The questions the functions are examined on, as they were written.
Questions ==
    { <<"how", "many", "payments">>,
      <<"how", "many", "transactions">>,
      <<"number", "of", "transactions">>,
      <<"transactions", "count">>,
      <<"summarize", "total", "transactions">>,
      <<"count", "all", "account", "transactions", "summary">>,
      <<"total", "amount">>,
      <<"sum", "of", "all", "payments">>,
      <<"show", "all", "transactions">>,
      <<"account", "number", "total", "amount">>,
      <<"average", "amount", "of", "account", "transactions">>,
      <<"small", "account", "balance">>,
      <<"my", "account", "balance">>,
      <<"list", "account", "SAVINGS">>,
      <<"0a1b2c3d-0000-4000-8000-00000000000a", "transactions">>,
      <<"0a1b2c3d-0000-4000-8000-00000000000a", "balance">>,
      <<"transactions", "in", "2024">>,
      <<"transactions", "in", "march">>,
      <<"march", "2024", "transactions">>,
      <<"summarize", "my", "spending">>,
      <<"UPI", "payments", "above", "0">>,
      <<"payments", "above", "0">>,
      <<"payments", "below", "0">>,
      <<"list", "transactions", "above", "500">>,
      <<"payments", "below", "40">>,
      <<"between", "40", "and", "20">>,
      <<"paid", "to", "Rahul", "Sharma">>,
      <<"sent", "to", "Rahul">>,
      <<"credit", "by", "cash">> }

\* ------------------------------------------- the analytical digest's sample
\* How many records each part of the sample takes, and the caps of the
\* second and third loop.
TOP_AMOUNTS == 10

BOTTOM_AMOUNTS == 5

BOTTOM_CAP == 15

RECENT == 15

SAMPLE_CAP == 30

\* sorted(documents, key=createdAt, reverse=True): stable, like the sort by
\* amount.  createdAt is kept as a day number here: ISO date strings compare
\* as their days do, and the empty string of a missing date (day 0) comes
\* last.
RECURSIVE InsertByDate(_, _)
InsertByDate(d, s) ==
    IF s = <<>> THEN <<d>>
    ELSE IF Head(s).createdAt >= d.createdAt
    THEN <<Head(s)>> \o InsertByDate(d, Tail(s))
    ELSE <<d>> \o s

RECURSIVE SortByDateDesc(_)
SortByDateDesc(docs) ==
    IF docs = <<>> THEN <<>>
    ELSE InsertByDate(docs[Len(docs)],
                      SortByDateDesc(SubSeq(docs, 1, Len(docs) - 1)))

\* seq[:n] and seq[-n:].
FirstN(seq, n) == SubSeq(seq, 1, Min2(n, Len(seq)))

LastN(seq, n) == SubSeq(seq, Len(seq) - Min2(n, Len(seq)) + 1, Len(seq))

SeenIds(sample) == {sample[i].txnId : i \in 1..Len(sample)}

\* Variant: a record is added whether or not its id was seen.
AddBelowCap(sample, txns, cap) ==
    LET after[k \in 0..Len(txns)] ==
            IF k = 0 THEN sample
            ELSE LET before == after[k - 1] IN
                 IF Len(before) < cap
                 THEN Append(before, txns[k]) ELSE before
    IN  IF Len(sample) >= cap \/ txns = <<>> THEN sample ELSE after[Len(txns)]

\* One loop over a slice: a record is added when its id was not seen and
\* the sample is below the cap; a sample at the cap, or an empty slice,
\* leaves the sample as it is.
AddUnseen(sample, txns, cap) ==
    LET after[k \in 0..Len(txns)] ==
            IF k = 0 THEN sample
            ELSE LET before == after[k - 1] IN
                 IF txns[k].txnId \notin SeenIds(before) /\ Len(before) < cap
                 THEN Append(before, txns[k]) ELSE before
    IN  IF Len(sample) >= cap \/ txns = <<>> THEN sample ELSE after[Len(txns)]

\* The first loop has no cap: it adds at most TOP_AMOUNTS records.
sample_transactions(documents) ==
    LET sorted_by_amount == SortByAmountDesc(documents)
        sorted_by_date == SortByDateDesc(documents)
        top == AddUnseen(<<>>, FirstN(sorted_by_amount, TOP_AMOUNTS),
                         TOP_AMOUNTS + 1)
        bottom == AddUnseen(top, LastN(sorted_by_amount, BOTTOM_AMOUNTS),
                            BOTTOM_CAP)
    IN  AddUnseen(bottom, FirstN(sorted_by_date, RECENT), SAMPLE_CAP)

\* The datasets the sample is drawn from: n records whose amounts and days
\* rise together, run against each other, are shifted against each other,
\* are all equal, or whose ids repeat.
DigestSizes == {0, 3, 10, 12, 36}

DigestPatterns == {"aligned", "opposed", "shifted", "equal", "repeated ids"}

DigestData(n, pattern) ==
    [i \in 1..n |->
        [txnId |-> IF pattern = "repeated ids" THEN i % 4 ELSE i,
         amount |-> IF pattern = "equal" THEN 7 ELSE i,
         createdAt |-> CASE pattern = "opposed" -> n + 1 - i
                         [] pattern = "shifted" -> (i + 12) % n
                         [] pattern = "equal" -> 1
                         [] OTHER -> i]]

DigestSets == {DigestData(n, pt) : n \in DigestSizes, pt \in DigestPatterns}

\* A request that carries the question and nothing else.
RequestOf(question) == [NoReq EXCEPT !.prompt = question]

\* The prompts identities are computed for: two that differ in case only,
\* one with a trailing blank (an empty last word), one other.
IdPrompts ==
    { <<"total", "amount">>, <<"Total", "amount">>, <<"total", "amount", "">>,
      <<"payments", "below", "40">> }

\* The Filter Sets identities are computed for: two differ in one field.
IdFilters ==
    { EmptyFilters,
      extract_filters_from_query(<<"payments", "below", "40">>),
      extract_filters_from_query(<<"payments", "below", "0">>) }

Reverse(seq) == [i \in 1..Len(seq) |-> seq[Len(seq) + 1 - i]]

\* The orders in which a caller may have inserted the keys.
KeyOrders == { FilterKeys, Reverse(FilterKeys), SortedKeys }

\* One call of generate_query_id: the prompt and the dict.
IdArgs ==
    { [prompt |-> p, filters |-> f, order |-> o] :
        p \in IdPrompts, f \in IdFilters, o \in KeyOrders }

\* Records as a caller may ingest them: amounts 0 and equal to a
\* threshold, a mode in lower case, an account in upper case, narrations
\* that hold a name whole, inside a longer word, or not at all, a record
\* without timestamp, account and narration.
RecA ==
    Rec("r1", 50, "UPI", "TYPE#DEBIT", "2024-03-15", "savings",
        <<"paid", "to", "Rahul", "Sharma">>)

RecB ==
    Rec("r2", 20, "cash", "TYPE#CREDIT", "2024-03-20", "SAVINGS",
        <<"from", "rahulkumar">>)

RecC ==
    Rec("r3", 0, "UPI", "TYPE#CREDIT", "2019-01-02",
        "0a1b2c3d-0000-4000-8000-00000000000a", <<"rahul", "sharmaji">>)

RecD == Txn("r4", 40, "NEFT", "TYPE#DEBIT", "")

\* Records with a field a JSON client may send: a timestamp that is no
\* date, and null for the amount, mode, type tag, account or narration.
BadRecords ==
    { [RecA EXCEPT !.createdAt = "yesterday"],
      [RecA EXCEPT !.createdAt = Null],
      [RecA EXCEPT !.amount = BadAmount],
      [RecA EXCEPT !.mode = Null],
      [RecA EXCEPT !.pk_GSI_1 = Null],
      [RecA EXCEPT !.accountId = Null],
      [RecA EXCEPT !.narration = NullNarration] }

RecordSets ==
    { <<>>, <<RecA, RecB, RecC, RecD>>, <<RecD, RecC, RecA, RecB, RecA>> }
    \cup { <<RecB, bad, RecC>> : bad \in BadRecords }

\* Filter Sets: those the extractor produces for the questions, and
\* others a caller may pass, with more than one amount field set or with
\* every kind of filter set.
FilterSets ==
    { extract_filters_from_query(q) : q \in Questions }
    \cup { [EmptyFilters EXCEPT !.amount_above = 20, !.amount_below = 40],
           [EmptyFilters EXCEPT !.amount_above = 0, !.amount_below = 40],
           [EmptyFilters EXCEPT !.amount_range = <<20, 40>>,
                                !.amount_above = 40],
           [EmptyFilters EXCEPT !.amount_range = <<0, 20>>,
                                !.amount_above = 20, !.amount_below = 20],
           [EmptyFilters EXCEPT !.amount_above = 50],
           [EmptyFilters EXCEPT !.amount_below = 20],
           [EmptyFilters EXCEPT !.date_filter = [month |-> 3, year |-> 2024],
                                !.mode = "UPI", !.type = "DEBIT",
                                !.amount_above = 20,
                                !.account_id = "savings",
                                !.person_name = <<"Rahul", "Sharma">>,
                                !.strict_name_match = TRUE],
           [EmptyFilters EXCEPT !.mode = "CASH", !.account_id = "savings",
                                !.person_name = <<"Rahul">>],
           [EmptyFilters EXCEPT !.person_name = <<"Rahul">>,
                                !.strict_name_match = TRUE] }

Inputs ==
    {[fn |-> "question", question |-> q] : q \in Questions}
    \cup {[fn |-> "dataset", documents |-> d] : d \in DigestSets}
    \cup {[fn |-> "records", documents |-> d, filters |-> f] :
             d \in RecordSets, f \in FilterSets}
    \cup {[fn |-> "identities", first |-> a, second |-> b] :
             a \in IdArgs, b \in IdArgs}

InitFunctions ==
    /\ now = 0
    /\ ticks = 0
    /\ models_ready = TRUE
    /\ ingested_data_store = [transactions |-> <<>>, vectorstore |-> NoneOf]
    /\ query_cache = [k \in {} |-> NoResp]
    /\ pc = [r \in Requests |-> "idle"]
    /\ req = [r \in Requests |-> NoReq]
    /\ loc = [r \in Requests |-> NoLoc]
    /\ resp = [r \in Requests |-> NoResp]
    /\ starts = 0
    /\ call \in Inputs
    /\ ingest = NoResp

Untouched ==
    UNCHANGED <<now, ticks, models_ready, ingested_data_store, query_cache,
                pc, req, loc, resp, starts, ingest>>

\* detect_query_mode on the question, and the branch the handler takes on
\* its answer when the request carries no override.
DetectQueryMode ==
    /\ call.fn = "question"
    /\ call' = [fn |-> "detect_query_mode", question |-> call.question,
                mode |-> detect_query_mode(call.question),
                branch |-> Branch(RequestOf(call.question),
                                  detect_query_mode(call.question))]
    /\ Untouched

\* generate_query_id, called on the first arguments, on the second, and on
\* the first again.
GenerateQueryId ==
    /\ call.fn = "identities"
    /\ LET Id(a) == QueryIdOfItems(a.prompt, Items(a.filters, a.order)) IN
       call' = [fn |-> "generate_query_id", first |-> call.first,
                second |-> call.second, id1 |-> Id(call.first),
                id2 |-> Id(call.second), again |-> Id(call.first)]
    /\ Untouched

ExtractFilters ==
    /\ call.fn = "question"
    /\ call' = [fn |-> "extract_filters_from_query",
                question |-> call.question,
                filters |-> extract_filters_from_query(call.question)]
    /\ Untouched

ApplyFilters ==
    /\ call.fn = "records"
    /\ LET result == apply_filters(call.documents, call.filters) IN
       call' = [fn |-> "apply_filters", documents |-> call.documents,
                filters |-> call.filters, raised |-> result.raised,
                filtered |-> result.docs, descriptions |-> result.desc]
    /\ Untouched

\* calculate_statistics, and the apply_filters call that
\* process_statistical_query makes next to it for the matching count.
CalculateStatistics ==
    /\ call.fn = "records"
    /\ LET result == calculate_statistics(call.documents, call.filters)
           kept == apply_filters(call.documents, call.filters)
       IN  call' = [fn |-> "calculate_statistics",
                    documents |-> call.documents, filters |-> call.filters,
                    raised |-> result = StatsRaised, statistics |-> result,
                    kept_raised |-> kept.raised, kept |-> kept.docs]
    /\ Untouched

\* apply_filters with the same Filter Set on what it returned.
ReapplyFilters ==
    /\ call.fn = "apply_filters"
    /\ ~call.raised
    /\ LET result == apply_filters(call.filtered, call.filters) IN
       call' = [fn |-> "apply_filters_again", documents |-> call.filtered,
                filters |-> call.filters, raised |-> result.raised,
                filtered |-> result.docs, descriptions |-> result.desc,
                first_descriptions |-> call.descriptions,
                removed |-> Len(call.documents) - Len(call.filtered)]
    /\ Untouched

\* process_analytical_query up to the sample it puts into the digest.
ProcessAnalyticalQuery ==
    /\ call.fn = "dataset"
    /\ call' = [fn |-> "process_analytical_query",
                documents |-> call.documents,
                sample |-> sample_transactions(call.documents)]
    /\ Untouched

NextFunctions ==
    \/ ProcessAnalyticalQuery
    \/ DetectQueryMode
    \/ GenerateQueryId
    \/ ExtractFilters
    \/ ApplyFilters
    \/ CalculateStatistics
    \/ ReapplyFilters

SpecFunctions == InitFunctions /\ [][NextFunctions]_vars

\* ------------------------------------------------------------ properties
\* C1: get_cached_query returns the entry of an identity exactly when the
\* time since its insertion is at most the TTL, the boundary included;
\* otherwise it reports a miss and the entry is gone afterwards.  The sweep
\* that opens the call removes no entry that is still within the TTL.
C1_GetWithinTTL ==
    [][\A r \in Requests :
          /\ (pc[r] = "lookup" /\ pc'[r] = "got") =>
                LET id == loc[r].query_id IN
                IF /\ id \in DOMAIN query_cache
                   /\ now - query_cache[id].timestamp <= CACHE_TTL_MINUTES
                THEN loc'[r].cached_data = <<query_cache[id]>>
                ELSE /\ loc'[r].cached_data = <<>>
                     /\ id \notin DOMAIN query_cache'
          /\ (pc[r] = "cleanup_delete" /\ pc'[r] = "lookup") =>
                \A k \in (DOMAIN query_cache) \ (DOMAIN query_cache') :
                    now - query_cache[k].timestamp > CACHE_TTL_MINUTES
      ]_vars

\* A lookup found its entry past the TTL, removed it and reported a miss.
C1_Witness ==
    \E r \in Requests :
        pc[r] = "got" /\ loc[r].evicted /\ loc[r].cached_data = <<>>

\* C2: cache operations never interleave: while one request is inside its
\* handler no other request is, and no request fails because an entry it
\* was about to delete is already gone (every 500 comes from a collaborator).
C2_CacheOpsExclusive ==
    /\ \A r, o \in Requests : r # o => pc[r] = "idle" \/ pc[o] = "idle"
    /\ \A r \in Requests :
          pc[r] = "done" /\ resp[r].status = 500 => loc[r].llm_failed

\* A request stands between the sweep, which removed an expired entry, and
\* the lookup proper.
C2_Witness ==
    \E r \in Requests : pc[r] = "lookup" /\ loc[r].expired_keys # {}

\* C3: when the similarity index or the text generator fails during a
\* request, the request ends in a failure: no answer is returned and none is
\* substituted from a template.  (SMART_FULL answers from the template.)
C3_FailureIsExplicit ==
    \A r \in Requests :
        pc[r] = "done" /\ loc[r].llm_failed => resp[r].status # 200

\* C4: a page>1 request that finds an unexpired entry calls no collaborator
\* and does no classification, record filtering or statistics: answer,
\* mode, descriptions and record set are the entry's, and only the page
\* slice is computed.
C4_CachedPageSkipsPipeline ==
    \A r \in Requests :
        pc[r] = "done" /\ loc[r].cached_data # <<>> /\ req[r].page > 1 =>
            LET e == loc[r].cached_data[1] IN
            /\ ~loc[r].pipeline
            /\ loc[r].classified = 0
            /\ loc[r].filter_runs = 0
            /\ loc[r].stats_runs = 0
            /\ loc[r].llm_calls = 0
            /\ loc[r].index_calls = 0
            /\ resp[r].status = 200
            /\ resp[r].answer = e.answer
            /\ resp[r].mode = e.mode
            /\ resp[r].filters_applied = e.filters_applied
            /\ resp[r].statistics = e.statistics
            /\ resp[r].matching_transactions_count = Len(e.filtered_docs)
            /\ resp[r].transactions # <<>> =>
                  resp[r].transactions[1] =
                      Paginate(e.filtered_docs, req[r].page,
                               req[r].page_size).transactions

\* A page>1 request was answered from an entry, with a page cut from the
\* entry's records.
C4_Witness ==
    \E r \in Requests :
        /\ pc[r] = "done" /\ loc[r].cached_data # <<>> /\ req[r].page > 1
        /\ resp[r].status = 200 /\ resp[r].pagination # <<>>

\* C5: every request that runs the full pipeline to a successful answer
\* leaves an unexpired entry for its identity, in every mode.  (The top-k
\* branch of VECTOR_SEARCH writes none.)
C5_PipelineLeavesEntry ==
    \A r \in Requests :
        pc[r] = "done" /\ loc[r].pipeline /\ resp[r].status = 200 =>
            /\ loc[r].query_id \in DOMAIN query_cache
            /\ now - query_cache[loc[r].query_id].timestamp
                  <= CACHE_TTL_MINUTES

PosOf(docs, id) == CHOOSE k \in 1..Len(docs) : docs[k].txnId = id

RECURSIVE ConcatPages(_, _, _, _)
ConcatPages(docs, s, p, last) ==
    IF p > last THEN <<>>
    ELSE Paginate(docs, p, s).transactions \o ConcatPages(docs, s, p + 1, last)

\* The pages of docs at page size s tile the amount-descending stable sort
\* of docs, and the page metadata match the slice boundaries.
PagesTile(docs, s) ==
    LET n == Len(docs)
        tp == Paginate(docs, 1, s).pagination.total_pages
        all == ConcatPages(docs, s, 1, tp)
    IN  /\ tp * s >= n /\ (tp - 1) * s < n
        /\ Len(all) = n
        /\ \A i \in 1..n :
              \E j \in 1..n : all[j] = format_transaction_for_api(docs[i])
        /\ \A i, j \in 1..n :
              i < j =>
                \/ all[i].amount > all[j].amount
                \/ /\ all[i].amount = all[j].amount
                   /\ PosOf(docs, all[i].transaction_id)
                         < PosOf(docs, all[j].transaction_id)
        /\ \A p \in 1..(tp + 1) :
              LET pg == Paginate(docs, p, s) IN
              /\ pg.pagination.total_pages = tp
              /\ pg.pagination.has_next = (p * s < n)
              /\ pg.pagination.has_prev = (p > 1)
              /\ Len(pg.transactions) =
                    IF p * s <= n THEN s
                    ELSE IF (p - 1) * s < n THEN n - (p - 1) * s
                    ELSE 0

\* The record set a response with pages was cut from.
PagedDocs(r) ==
    IF loc[r].pipeline THEN loc[r].filtered_docs
    ELSE loc[r].cached_data[1].filtered_docs

\* C7: for the filtered set of any response that carries a page, and any
\* page size, the pages 1..ceil(n/s) of the amount-descending sort are
\* disjoint and together the whole sorted set, ties in one fixed order;
\* total_pages = ceil(n/s), has_next exactly when records remain, has_prev
\* exactly when page > 1; the response's page is that slice, from the
\* pipeline or from the cache.
C7_PagesTile ==
    \A r \in Requests :
        pc[r] = "done" /\ resp[r].status = 200 /\ resp[r].pagination # <<>> =>
            /\ \A s \in 1..(Len(PagedDocs(r)) + 1) :
                  PagesTile(PagedDocs(r), s)
            /\ resp[r].transactions[1] =
                  Paginate(PagedDocs(r), req[r].page,
                           req[r].page_size).transactions
            /\ resp[r].pagination[1] =
                  Paginate(PagedDocs(r), req[r].page,
                           req[r].page_size).pagination

\* The last, shorter page of a set was served from the cache.
C7_Witness ==
    \E r \in Requests :
        /\ pc[r] = "done" /\ ~loc[r].pipeline /\ resp[r].status = 200
        /\ resp[r].pagination # <<>>
        /\ resp[r].pagination[1].has_prev
        /\ ~resp[r].pagination[1].has_next
        /\ Len(resp[r].transactions[1]) > 0
        /\ Len(resp[r].transactions[1]) < req[r].page_size

\* Handler positions from which the next step writes the cache.
PutPoints == {"statistical", "smart_full", "smart_full_llm", "analytical_llm"}

IsPut(r) ==
    pc[r] \in PutPoints /\ pc'[r] = "done" /\ resp'[r].status = 200

\* C8: after a get_cached_query call, for whatever identity and hit or
\* miss, the cache holds no entry whose age exceeded the TTL at the time of
\* the call; a put removes no entry.
C8_GetSweepsAll ==
    [][\A r \in Requests :
          /\ (pc[r] = "lookup" /\ pc'[r] = "got") =>
                \A k \in DOMAIN query_cache' :
                    loc'[r].current_time - query_cache'[k].timestamp
                        <= CACHE_TTL_MINUTES
          /\ IsPut(r) => DOMAIN query_cache \subseteq DOMAIN query_cache'
      ]_vars

\* A lookup has swept the expired entry of an identity it was not asked for.
C8_Witness ==
    \E r \in Requests :
        /\ pc[r] = "got"
        /\ loc[r].expired_keys # {}
        /\ loc[r].query_id \notin loc[r].expired_keys

\* C9: a put replaces the entry of its identity and sets its insertion time
\* to the time of the put; the identity has one entry and no entry of
\* another identity changes.
C9_PutReplaces ==
    [][\A r \in Requests :
          IsPut(r) =>
            LET id == loc[r].query_id IN
            /\ DOMAIN query_cache' = (DOMAIN query_cache) \cup {id}
            /\ query_cache'[id].timestamp = now
            /\ query_cache'[id].answer = resp'[r].answer
            /\ query_cache'[id].mode = resp'[r].mode
            /\ \A k \in (DOMAIN query_cache) \ {id} :
                  query_cache'[k] = query_cache[k]
      ]_vars

\* A run on page 1 found an entry of its identity and replaced it with a
\* later insertion time.
C9_Witness ==
    \E r \in Requests :
        /\ pc[r] = "done" /\ loc[r].pipeline /\ loc[r].cached_data # <<>>
        /\ loc[r].query_id \in DOMAIN query_cache
        /\ query_cache[loc[r].query_id].timestamp = now
        /\ loc[r].cached_data[1].timestamp < now

\* C10: a request calls the text generator not at all when its mode is
\* STATISTICAL and at most once otherwise; a failed collaborator call is
\* not repeated.
C10_GeneratorCalls ==
    \A r \in Requests :
        /\ loc[r].mode = "STATISTICAL" => loc[r].llm_calls = 0
        /\ loc[r].llm_calls <= 1
        /\ loc[r].index_calls <= 1

\* A request whose one text generator call failed has ended.
C10_Witness ==
    \E r \in Requests :
        pc[r] = "done" /\ loc[r].llm_failed /\ loc[r].llm_calls = 1

\* C11: every prompt the classifier's counting rule accepts is answered from
\* the digest of the whole record set, never from the top-k retrieval.
\* ("how many payments" is counted by the classifier alone.)
C11_CountingUsesDigest ==
    call.fn = "detect_query_mode" /\ ClassifierCounting(Lower(call.question))
        => call.branch = "analytical"

\* A question was classified.
Classified == call.fn = "detect_query_mode"

\* C12: the classifier answers STATISTICAL exactly when no counting pattern
\* and no account-with-intent condition matched, a statistical keyword is
\* present and no exclusion pattern matches; no later rule (full scan
\* keyword, date period, analytical keyword) changes that answer.
C12_StatisticalExactly ==
    Classified =>
        LET q == Lower(call.question) IN
        call.mode = "STATISTICAL" <=>
            /\ ~ClassifierCounting(q)
            /\ ~((HasAccount(q) \/ HasAccountKeyword(q))
                 /\ AnyKw(q, { <<"transaction">>, <<"saari">>, <<"all">>,
                               <<"list">>, <<"dikhao">> }))
            /\ AnyKw(q, StatsKeywords)
            /\ ~AnyKw(q, ExcludePatterns)

\* A question with a statistical keyword and a full scan keyword was
\* answered STATISTICAL.
C12_Witness ==
    /\ Classified
    /\ call.mode = "STATISTICAL"
    /\ AnyKw(Lower(call.question), FullScanKeywords)

\* C13 as stated: a question that mentions an account without a word of
\* the intent to list (all, list, show) falls through to rules 3 to 7.
\* ("average amount of account transactions" is answered by rule 2.)
C13_AccountNeedsListingIntent ==
    Classified =>
        LET q == Lower(call.question) IN
        /\ ~ClassifierCounting(q)
        /\ HasAccount(q) \/ HasAccountKeyword(q)
        /\ ~AnyKw(q, IntentWordsListing \cup { <<"show">> })
        => call.mode = RulesFrom3(q)

\* C13, amended: without a counting pattern, the answer is SMART_FULL by
\* rule 2 when an account number or keyword comes with one of transaction,
\* saari, all, list, dikhao as a substring of the question, and the answer
\* of rules 3 to 7 otherwise.
C13_AccountWithIntent ==
    Classified =>
        LET q == Lower(call.question) IN
        ~ClassifierCounting(q) =>
            IF /\ HasAccount(q) \/ HasAccountKeyword(q)
               /\ AnyKw(q, { <<"transaction">>, <<"saari">>, <<"all">>,
                             <<"list">>, <<"dikhao">> })
            THEN call.mode = "SMART_FULL"
            ELSE call.mode = RulesFrom3(q)

\* Rule 2 answered a question that rules 3 to 7 answer otherwise.
C13_Witness ==
    /\ Classified
    /\ ~ClassifierCounting(Lower(call.question))
    /\ HasAccountKeyword(Lower(call.question))
    /\ call.mode = "SMART_FULL"
    /\ RulesFrom3(Lower(call.question)) # "SMART_FULL"

\* C14: a question that matches a counting pattern and an analytical
\* keyword is answered VECTOR_SEARCH: the counting rule comes first, and
\* neither the account listing, the statistical keywords, the full scan
\* keywords nor the date period turn it into SMART_FULL or STATISTICAL.
C14_CountingFirst ==
    Classified =>
        LET q == Lower(call.question) IN
        ClassifierCounting(q) /\ AnyKw(q, AnalyticalKeywords)
            => call.mode = "VECTOR_SEARCH"

\* A counting question with an analytical keyword that rules 2 to 7 alone
\* answer otherwise.
C14_Witness ==
    /\ Classified
    /\ ClassifierCounting(Lower(call.question))
    /\ AnyKw(Lower(call.question), AnalyticalKeywords)
    /\ RulesFrom2(Lower(call.question)) # "VECTOR_SEARCH"
    /\ call.mode = "VECTOR_SEARCH"

Applied == call.fn = "apply_filters" /\ ~call.raised

\* The amount fields of a Filter Set that are set.
AmountFieldsSet(f) ==
    {k \in {"amount_range", "amount_above", "amount_below"} :
        IF k = "amount_range" THEN f[k] # <<>> ELSE f[k] # NoAmount}

\* The Filter Set has no filter but amount filters.
OnlyAmount(f) ==
    [f EXCEPT !.amount_range = <<>>, !.amount_above = NoAmount,
              !.amount_below = NoAmount] = EmptyFilters

\* The amount filter of highest priority that is set keeps the record.
AmountSatisfied(d, f) ==
    IF f.amount_range # <<>>
    THEN f.amount_range[1] <= d.amount /\ d.amount <= f.amount_range[2]
    ELSE IF f.amount_above # NoAmount THEN d.amount > f.amount_above
    ELSE IF f.amount_below # NoAmount THEN d.amount < f.amount_below
    ELSE TRUE

NoBadAmount(docs) == \A i \in 1..Len(docs) : docs[i].amount # BadAmount

\* C16: the extractor sets at most one of amount_range, amount_above and
\* amount_below; and of a Filter Set with more than one of them set,
\* apply_filters honours the one of highest priority (range, then above,
\* then below) and no other.  (With amount_above = 0 and amount_below = 40
\* it honours amount_below.)
C16_OneAmountInterpretation ==
    /\ call.fn = "extract_filters_from_query"
           => Cardinality(AmountFieldsSet(call.filters)) <= 1
    /\ /\ Applied
       /\ OnlyAmount(call.filters)
       /\ Cardinality(AmountFieldsSet(call.filters)) > 1
       /\ NoBadAmount(call.documents)
       => LET Keep(d) == AmountSatisfied(d, call.filters) IN
          call.filtered = SelectSeq(call.documents, Keep)

\* C17: for every threshold X the extractor produces, 0 included, an
\* amount_above filter keeps exactly the records with amount > X and an
\* amount_below filter exactly those with amount < X.  (With X = 0 every
\* record is kept.)
C17_StrictThresholds ==
    /\ Applied
    /\ OnlyAmount(call.filters)
    /\ Cardinality(AmountFieldsSet(call.filters)) = 1
    /\ call.filters.amount_range = <<>>
    /\ NoBadAmount(call.documents)
    => LET Above(d) == d.amount > call.filters.amount_above
           Below(d) == d.amount < call.filters.amount_below
       IN  IF call.filters.amount_above # NoAmount
           THEN call.filtered = SelectSeq(call.documents, Above)
           ELSE call.filtered = SelectSeq(call.documents, Below)

\* C18: apply_filters and calculate_statistics never raise, whatever the
\* records and the Filter Set.  (A null amount, mode, type tag, account or
\* narration raises in the stage that reads it.)
C18_NeverRaises ==
    call.fn \in {"apply_filters", "calculate_statistics"} => ~call.raised

\* The filter a description reports.
KindOf(label) ==
    CASE label \in {"Date", "Year", "Month"} -> "date"
      [] label = "Mode" -> "mode"
      [] label = "Type" -> "type"
      [] label \in {"Amount", "Amount above", "Amount below"} -> "amount"
      [] label = "Account" -> "account"
      [] label \in {"EXACT name", "Person"} -> "person"

\* The active filters of a Filter Set, in the order of evaluation.
ActiveFilters(f) ==
    (IF f.date_filter # NoDate THEN <<"date">> ELSE <<>>)
    \o (IF f.mode # None THEN <<"mode">> ELSE <<>>)
    \o (IF f.type # None THEN <<"type">> ELSE <<>>)
    \o (IF AmountFieldsSet(f) # {} THEN <<"amount">> ELSE <<>>)
    \o (IF f.account_id # None THEN <<"account">> ELSE <<>>)
    \o (IF f.person_name # <<>> THEN <<"person">> ELSE <<>>)

\* C19: the descriptions are one per active filter, in the order date,
\* mode, type, amount, account, person name.  (A date filter with a month
\* and no year filters the records and adds no description.)
C19_OneDescriptionPerFilter ==
    Applied =>
        [i \in 1..Len(call.descriptions) |->
            KindOf(call.descriptions[i].label)] = ActiveFilters(call.filters)

\* The record satisfies every active filter of the Filter Set.
Satisfies(d, f) ==
    /\ f.date_filter # NoDate =>
           /\ strptime(d.createdAt).ok
           /\ f.date_filter.year # 0
                  => strptime(d.createdAt).year = f.date_filter.year
           /\ f.date_filter.month # 0
                  => strptime(d.createdAt).month = f.date_filter.month
    /\ f.mode # None => UpperMode(d.mode) = UpperMode(f.mode)
    /\ f.type = "CREDIT" => d.pk_GSI_1 = "TYPE#CREDIT"
    /\ f.type = "DEBIT" => d.pk_GSI_1 = "TYPE#DEBIT"
    /\ AmountSatisfied(d, f)
    /\ f.account_id # None => LowerWord(d.accountId) = LowerWord(f.account_id)
    /\ f.person_name # <<>> =>
           \E i \in 1..Len(d.narration) :
               IF f.strict_name_match /\ Len(f.person_name) >= 2
               THEN WordsAt(d.narration, f.person_name, i)
               ELSE SubstringAt(d.narration, f.person_name, i)

\* C20: apply_filters returns the input records that satisfy every active
\* filter, in input order, none twice, and leaves its input as it was.
\* (An amount filter with threshold 0 is active and is not applied.)
C20_ExactlyTheSatisfying ==
    Applied /\ NoBadAmount(call.documents) =>
        LET Keep(d) == Satisfies(d, call.filters) IN
        call.filtered = SelectSeq(call.documents, Keep)

\* C21: apply_filters applied, with the same Filter Set, to the filtered
\* set it returned gives that filtered set and the same descriptions.
C21_ApplyFiltersIdempotent ==
    call.fn = "apply_filters_again" =>
        /\ ~call.raised
        /\ call.filtered = call.documents
        /\ call.descriptions = call.first_descriptions

\* The first application removed records, kept some and described a mode
\* filter; the second was made on what it kept.
C21_Witness ==
    /\ call.fn = "apply_filters_again"
    /\ call.removed > 0
    /\ call.filtered # <<>>
    /\ call.filters.mode # None
    /\ call.descriptions # <<>>

\* C22: calculate_statistics returns count, total, average, maximum and
\* minimum of the amounts of the records apply_filters keeps: the count is
\* the matching count, the average (total over count) lies between minimum
\* and maximum, and all values are zero, without an error, when nothing is
\* kept.  (A kept record whose amount is null makes it raise.)
C22_StatisticsOfKept ==
    call.fn = "calculate_statistics" /\ ~call.kept_raised =>
        /\ ~call.raised
        /\ call.statistics.count = Len(call.kept)
        /\ call.statistics.total = SumSeq(Amounts(call.kept))
        /\ call.kept = <<>> => call.statistics = ZeroStats
        /\ call.kept # <<>> =>
               /\ call.statistics.max = MaxSeq(Amounts(call.kept))
               /\ call.statistics.min = MinSeq(Amounts(call.kept))
               /\ call.statistics.min * call.statistics.count
                      <= call.statistics.total
               /\ call.statistics.total
                      <= call.statistics.max * call.statistics.count

\* The positions of the records that come first when the records are put
\* in descending order of a key, records of equal key in input order.
FirstByKey(keys, n) ==
    {i \in DOMAIN keys :
        Cardinality({j \in DOMAIN keys :
            keys[j] > keys[i] \/ (keys[j] = keys[i] /\ j < i)}) < n}

\* The positions of the records that come last in that order.
LastByKey(keys, n) ==
    {i \in DOMAIN keys :
        Cardinality({j \in DOMAIN keys :
            keys[j] < keys[i] \/ (keys[j] = keys[i] /\ j > i)}) < n}

\* C23: the sample of the analytical digest holds at most 30 records, no
\* two of one id, and its ids are those of the 10 records of highest
\* amount, the 5 of lowest amount and the 15 most recent; of a dataset of
\* at most 10 records with distinct ids it holds every record.
C23_SampleOfDigest ==
    call.fn = "process_analytical_query" =>
        LET docs == call.documents
            sample == call.sample
            amounts == [i \in DOMAIN docs |-> docs[i].amount]
            days == [i \in DOMAIN docs |-> docs[i].createdAt]
            chosen == FirstByKey(amounts, 10) \cup LastByKey(amounts, 5)
                      \cup FirstByKey(days, 15)
        IN  /\ Len(sample) <= 30
            /\ \A i, j \in DOMAIN sample :
                   sample[i].txnId = sample[j].txnId => i = j
            /\ \A i \in DOMAIN sample : \E j \in DOMAIN docs : sample[i] = docs[j]
            /\ SeenIds(sample) = {docs[i].txnId : i \in chosen}
            /\ Len(docs) <= 10 /\ Cardinality(SeenIds(docs)) = Len(docs)
                   => /\ Len(sample) = Len(docs)
                      /\ \A j \in DOMAIN docs :
                             \E i \in DOMAIN sample : sample[i] = docs[j]

\* A sample of exactly 30 records was drawn from a larger dataset.
C23_Witness ==
    /\ call.fn = "process_analytical_query"
    /\ Len(call.documents) > 30
    /\ Len(call.sample) = 30

\* The report of a response is that of a Cache Entry: answer text, mode,
\* filter descriptions, statistics and matching-record count.
SameReport(response, entry) ==
    /\ response.answer = entry.answer
    /\ response.mode = entry.mode
    /\ response.filters_applied = entry.filters_applied
    /\ response.statistics = entry.statistics
    /\ response.matching_transactions_count = Len(entry.filtered_docs)

\* The step ends request r with a normal response, from one of these
\* positions of the handler.
Ends(r, positions) ==
    /\ pc[r] \in positions
    /\ pc'[r] = "done"
    /\ resp'[r].status = 200

CachingPositions == {"statistical", "smart_full", "smart_full_llm", "analytical_llm"}

\* C24: the response of a pipeline run that writes a Cache Entry, and every
\* response served from that entry afterwards, report the answer text, mode,
\* filter descriptions, statistics and matching-record count of the entry.
C24_CachedPageRepeatsFirstPage ==
    [][\A r \in Requests :
          /\ Ends(r, CachingPositions) =>
                /\ loc[r].query_id \in DOMAIN query_cache'
                /\ SameReport(resp'[r], query_cache'[loc[r].query_id])
          /\ Ends(r, {"got"}) /\ UsesCache(r) =>
                SameReport(resp'[r], loc[r].cached_data[1])]_vars

\* The same, for the modes that cache the records they matched.
C24_RecordModesRepeat ==
    [][\A r \in Requests :
          Ends(r, CachingPositions \ {"analytical_llm"}) =>
              SameReport(resp'[r], query_cache'[loc[r].query_id])]_vars

\* The Query Identity of the request's own prompt and Filter Set.
OwnIdentity(r) ==
    generate_query_id(req[r].prompt, extract_filters_from_query(req[r].prompt))

\* C25: the Query Identity a request looks up and writes under is the one
\* generate_query_id computes from its own prompt and extracted Filter Set.
C25_IdentityOfOwnPrompt ==
    \A r \in Requests :
        loc[r].query_id # NoId => loc[r].query_id = OwnIdentity(r)

\* The same, for requests that send no query_id.
C25_GeneratedIdentity ==
    \A r \in Requests :
        loc[r].query_id # NoId /\ req[r].query_id = NoId =>
            loc[r].query_id = OwnIdentity(r)

\* A request was served the entry of another prompt: the response of
\* "total amount" carries the mode and identity of "show all transactions".
C25_ServedForeignEntry ==
    \E r \in Requests :
        /\ pc[r] = "done"
        /\ resp[r].status = 200
        /\ loc[r].cached_data # NoneOf
        /\ ~loc[r].pipeline
        /\ resp[r].query_id # OwnIdentity(r)
        /\ resp[r].mode # detect_query_mode(req[r].prompt)

\* The step is an /ingest call, from the request to its response.
IngestStep == ingest = NoResp /\ ingest' # NoResp

Records(docs) == {docs[i] : i \in DOMAIN docs}

\* C26: an /ingest call leaves the Query Cache as it is; when it succeeds
\* the record set and the index built from it are replaced together, when
\* it fails the data store is left as it is.  An entry leaves the cache only
\* once it has expired, and a page > 1 request is served from the entry of
\* its identity, whichever dataset is stored by then.
C26_IngestLeavesCache ==
    [][/\ IngestStep =>
            /\ query_cache' = query_cache
            /\ ingest'.status = 200 =>
                  /\ Len(ingested_data_store'.transactions)
                         = ingest'.transactions_ingested
                  /\ ingested_data_store'.vectorstore
                         = Some(ingested_data_store'.transactions)
            /\ ingest'.status # 200 =>
                  ingested_data_store' = ingested_data_store
       /\ \A k \in DOMAIN query_cache :
             k \notin DOMAIN query_cache' =>
                 IsExpired(query_cache[k].timestamp, now)
       /\ \A r \in Requests :
             Ends(r, {"got"}) /\ UsesCache(r) =>
                 LET cached_data == loc[r].cached_data[1] IN
                 /\ SameReport(resp'[r], cached_data)
                 /\ resp'[r].transactions
                        = PageOf(req'[r], cached_data.filtered_docs).transactions
                 /\ resp'[r].pagination
                        = PageOf(req'[r], cached_data.filtered_docs).pagination
      ]_vars

\* A page > 1 request was served records of the dataset ingested before the
\* one that is stored now.
C26_Witness ==
    \E r \in Requests :
        /\ pc[r] = "done"
        /\ resp[r].status = 200
        /\ ~loc[r].pipeline
        /\ loc[r].cached_data # NoneOf
        /\ resp[r].transactions # NoneOf
        /\ resp[r].transactions[1] # <<>>
        /\ Records(loc[r].cached_data[1].filtered_docs)
               \cap Records(ingested_data_store.transactions) = {}

\* An /ingest call failed while the cache held an entry.
C26_FailedIngest ==
    /\ ingest # NoResp
    /\ ingest.status = 500
    /\ DOMAIN query_cache # {}

\* The step writes a Cache Entry: an identity gains an entry or its entry
\* changes.
WritesEntry ==
    \E k \in DOMAIN query_cache' :
        k \notin DOMAIN query_cache \/ query_cache'[k] # query_cache[k]

\* C27: a Cache Entry is written only by a step that ends its request with
\* a normal response; a request that ends in a failure (503, 400 or 500)
\* leaves every entry as it was or removes it.
C27_FailureWritesNothing ==
    [][WritesEntry =>
          \E r \in Requests :
              /\ pc[r] # "done"
              /\ pc'[r] = "done"
              /\ resp'[r].status = 200]_vars

\* A request has ended with a 500 and the entry of its identity was written
\* by it.
C27_FailedRequestLeftEntry ==
    \E r \in Requests :
        /\ pc[r] = "done"
        /\ resp[r].status = 500
        /\ loc[r].pipeline
        /\ loc[r].cached_data = NoneOf
        /\ loc[r].query_id \in DOMAIN query_cache

\* The handler of r is past the `if cached_data and request.page > 1` test.
PastCacheTest(r) == pc[r] \notin {"idle", "cleanup_delete", "lookup", "got"}

\* C28: a page-1 request runs the pipeline, with or without a valid entry
\* of its identity; a response built from the cache belongs to a request
\* for a page > 1 that found a valid entry.
C28_FirstPageRunsPipeline ==
    \A r \in Requests :
        /\ PastCacheTest(r) /\ req[r].page = 1 =>
               /\ loc[r].pipeline
               /\ loc[r].classified = 1
        /\ pc[r] = "done" /\ resp[r].status = 200 /\ ~loc[r].pipeline =>
               /\ req[r].page > 1
               /\ loc[r].cached_data # NoneOf
               /\ resp[r].answer = loc[r].cached_data[1].answer

\* A page-1 request found a valid entry of its identity and was answered by
\* a pipeline run.
C28_Witness ==
    \E r \in Requests :
        /\ pc[r] = "done"
        /\ resp[r].status = 200
        /\ req[r].page = 1
        /\ loc[r].cached_data # NoneOf
        /\ loc[r].pipeline
        /\ loc[r].classified = 1

CarriesPage(response) ==
    response.transactions # NoneOf \/ response.pagination # NoneOf

\* C29: a response carries a record list or pagination metadata only when
\* its mode is SMART_FULL, show_all is set and the filtered set is not
\* empty, whether a pipeline run or the cache produced it.
C29_PageOnlyInSmartFull ==
    \A r \in Requests :
        pc[r] = "done" /\ resp[r].status = 200 /\ CarriesPage(resp[r]) =>
            /\ resp[r].mode = "SMART_FULL"
            /\ req[r].show_all
            /\ resp[r].matching_transactions_count > 0

\* The same, for the responses of pipeline runs.
C29_PipelinePageOnlyInSmartFull ==
    \A r \in Requests :
        pc[r] = "done" /\ resp[r].status = 200 /\ CarriesPage(resp[r])
            /\ loc[r].pipeline =>
            /\ resp[r].mode = "SMART_FULL"
            /\ req[r].show_all
            /\ resp[r].matching_transactions_count > 0

\* A cache-served STATISTICAL response carries records and pagination.
C29_StatisticalPage ==
    \E r \in Requests :
        /\ pc[r] = "done"
        /\ resp[r].status = 200
        /\ ~loc[r].pipeline
        /\ req[r].query_id = NoId
        /\ resp[r].mode = "STATISTICAL"
        /\ resp[r].transactions # NoneOf
        /\ resp[r].transactions[1] # <<>>
        /\ resp[r].pagination # NoneOf

\* C30: in a pipeline run the mode is SMART_FULL under an override of true
\* and VECTOR_SEARCH under an override of false, whatever the Classifier
\* says of the prompt, and the Classifier's result without an override; the
\* STATISTICAL branch is never entered under an override, and the response
\* reports the mode chosen.
C30_OverrideChoosesMode ==
    \A r \in Requests :
        loc[r].pipeline =>
            /\ req[r].use_full_data = "True" => loc[r].mode = "SMART_FULL"
            /\ req[r].use_full_data = "False" => loc[r].mode = "VECTOR_SEARCH"
            /\ req[r].use_full_data = "None" =>
                   loc[r].mode = detect_query_mode(req[r].prompt)
            /\ req[r].use_full_data # "None" =>
                   /\ loc[r].mode # "STATISTICAL"
                   /\ pc[r] # "statistical"
                   /\ loc[r].stats_runs = 0
            /\ pc[r] = "done" /\ resp[r].status = 200 =>
                   resp[r].mode = loc[r].mode

\* A prompt the Classifier calls STATISTICAL was answered in VECTOR_SEARCH
\* mode under an override of false.
C30_Witness ==
    \E r \in Requests :
        /\ pc[r] = "done"
        /\ resp[r].status = 200
        /\ loc[r].pipeline
        /\ req[r].use_full_data = "False"
        /\ detect_query_mode(req[r].prompt) = "STATISTICAL"
        /\ resp[r].mode = "VECTOR_SEARCH"

====
